---- MODULE Spec2Model ----
(***************************************************************************)
(* A model of the sport-pal-planner back end: the Postgres schema with its *)
(* constraints, row-level-security policies and trigger functions, the     *)
(* session-reminders and admin-users edge functions, and the client        *)
(* handlers that write to the tables.                                      *)
(*                                                                         *)
(* The database is one record (DB) and every statement is a pure operator  *)
(* from a database to a result [error, db]; an action applies the whole    *)
(* handler to the current database and commits what it leaves behind.      *)
(***************************************************************************)
EXTENDS Integers, Sequences, FiniteSets, TLC

VARIABLES
  auth_users,     \* ids of the rows of auth.users
  user_roles,     \* rows of public.user_roles: [user_id, role]
  profiles,       \* rows of public.profiles: [user_id, email]
  invites,        \* rows of public.invites: [email, invite_code, invited_by, used]
  sessions,       \* rows of public.sessions
  bookings,       \* rows of public.bookings: [id, session_id, user_id, reminder_sent]
  notifications,  \* rows of public.notifications, in insertion order
  nextId,         \* the next generated row id / invite code
  now,            \* the clock, in minutes since 00:00 UTC of day 0
  response,       \* what the last handler answered
  last,           \* the last request and the database it met (history)
  runLog,         \* the latest session-reminders run that got to its loop (history)
  fetched,        \* per user, the sessions and bookings the Dashboard last fetched
  running         \* per invocation of an edge function, how far it has got

vars == <<auth_users, user_roles, profiles, invites, sessions, bookings,
          notifications, nextId, now, response, last, runLog, fetched,
          running>>

NULL == "NULL"

Users == {"u1", "u2", "u3"}

\* The invocations of an edge function that can be in progress at once, and
\* an invocation that has not begun or has answered.
Invocations == {"i1", "i2"}
Idle == [pc |-> "idle"]

----------------------------------------------------------------------------
(* Bounds of the model.                                                    *)

MaxSessions == 1
MaxNotifications == 3
MaxTicks == 1
MaxRows == 2
MaxSeries == 3

----------------------------------------------------------------------------
(* Helpers.                                                                *)

RECURSIVE SeqOf(_)
SeqOf(S) == IF S = {} THEN <<>>
            ELSE LET x == CHOOSE y \in S : TRUE IN <<x>> \o SeqOf(S \ {x})

Range(q) == {q[i] : i \in 1..Len(q)}

\* The database a statement meets.  failing: the users for whom an insert
\* into notifications fails while the statement runs (none, unless a request
\* says otherwise).
DB == [auth_users |-> auth_users, user_roles |-> user_roles,
       profiles |-> profiles, invites |-> invites, sessions |-> sessions,
       bookings |-> bookings, notifications |-> notifications,
       nextId |-> nextId, failing |-> {}]

Commit(db) ==
  /\ auth_users' = db.auth_users
  /\ user_roles' = db.user_roles
  /\ profiles' = db.profiles
  /\ invites' = db.invites
  /\ sessions' = db.sessions
  /\ bookings' = db.bookings
  /\ notifications' = db.notifications
  /\ nextId' = db.nextId

\* gen_random_uuid(): the n-th generated session id.
RowId(n) == "s" \o ToString(n)

\* gen_random_uuid() for a booking: an id no other live booking has.  UNIQUE
\* (session_id, user_id) makes the pair such an id, and no statement of the
\* model keeps a booking id beyond the request that read it.
BookingId(sid, uid) == sid \o "/" \o uid

Ok(db) == [error |-> NULL, db |-> db]
Err(code, db) == [error |-> code, db |-> db]

----------------------------------------------------------------------------
(* public.has_role and the notifications table.                            *)

has_role(db, uid, role) ==
  \E r \in db.user_roles : r.user_id = uid /\ r.role = role

\* The types notifications_type_check lets in (the latest definition).
NotificationTypes ==
  {"booking", "cancellation", "session_update", "comment", "reminder",
   "new_user_pending", "booking_created", "booking_cancelled",
   "session_modified", "session_cancelled"}

notifications_type_check_with_reminder(type) ==
  type \in NotificationTypes \cup {"session_reminder"}

notifications_type_check(type) == type \in NotificationTypes

\* A row the notifications table takes: user_id NOT NULL, the type check,
\* session_id NULL or the id of a sessions row.
NotificationAccepted(db, row) ==
  /\ row.user_id # NULL
  /\ notifications_type_check(row.type)
  /\ row.session_id = NULL \/ \E s \in db.sessions : s.id = row.session_id

\* INSERT INTO notifications of several rows: one statement, all or nothing.
InsertNotifications(db, rows) ==
  IF \E i \in 1..Len(rows) : rows[i].user_id \in db.failing
  THEN Err("fault", db)
  ELSE IF \A i \in 1..Len(rows) : NotificationAccepted(db, rows[i])
  THEN Ok([db EXCEPT !.notifications = @ \o rows])
  ELSE Err("23514", db)

Notification(uid, type, sid, actor) ==
  [user_id |-> uid, type |-> type, session_id |-> sid, actor_id |-> actor,
   is_read |-> FALSE]

----------------------------------------------------------------------------
(* Sessions and bookings: the tables, the client handlers that write them  *)
(* and the booking triggers.                                               *)

\* Calendar days are day numbers; day 0 is Sunday 2026-01-04, so that
\* EXTRACT(DOW FROM d) is d % 7 (0 = Sunday .. 6 = Saturday).
DOW(d) == d % 7

\* now.toISOString().split('T')[0]: the UTC date of an instant.
Today(t) == t \div (24 * 60)

\* toTimeString().slice(0, 5): the HH:MM of an instant, as the minute of its
\* day (the edge runtime's local time zone is UTC).
TimeOfDay(t) == t % (24 * 60)

\* A nullable column that holds sets or dates is the empty set when NULL and
\* the singleton of its value otherwise.
SqlNull == {}
NotNull(x) == {x}

\* The value the session form starts with in its "Participants max" field.
FormMaxParticipants == 1

SessionRow(id, uid, title, location, date, start, rtype, rdays, rend, parent, instance) ==
  [id |-> id, created_by |-> uid, title |-> title, location |-> location,
   session_date |-> date, start_time |-> start, end_time |-> start + 60,
   is_cancelled |-> FALSE, recurrence_type |-> rtype,
   recurrence_days |-> rdays, recurrence_end_date |-> rend,
   parent_session_id |-> parent, is_recurring_instance |-> instance,
   max_participants |-> FormMaxParticipants]

SessionById(db, sid) == CHOOSE s \in db.sessions : s.id = sid

HasSession(db, sid) == \E s \in db.sessions : s.id = sid

\* INSERT INTO sessions by a client: policy "Authenticated users can create
\* sessions" (auth.uid() IS NOT NULL); created_by references auth.users.
InsertSession(db, uid, row) ==
  IF uid = NULL THEN Err("42501", db)
  ELSE IF row.created_by # NULL /\ row.created_by \notin db.auth_users
  THEN Err("23503", db)
  ELSE Ok([db EXCEPT !.sessions = @ \cup {row}, !.nextId = @ + 1])

\* A trigger that notifies the creator of the creator's own booking too.
notify_booking_created_also_own(db, new) ==
  LET created_by == IF HasSession(db, new.session_id)
                    THEN SessionById(db, new.session_id).created_by ELSE NULL
  IN IF created_by = NULL THEN Ok(db)
     ELSE IF ~\E p \in db.profiles : p.user_id = new.user_id
     THEN Err("23502", db)
     ELSE InsertNotifications(db,
            <<Notification(created_by, "booking_created", new.session_id,
                           new.user_id)>>)

\* notify_booking_created, AFTER INSERT ON bookings.  A session that is not
\* found leaves v_session all NULL.  A booker without a profile row leaves
\* v_booker all NULL, the concatenated message is NULL, and the insert breaks
\* message TEXT NOT NULL.
notify_booking_created(db, new) ==
  LET created_by == IF HasSession(db, new.session_id)
                    THEN SessionById(db, new.session_id).created_by ELSE NULL
  IN IF created_by = NULL \/ created_by = new.user_id THEN Ok(db)
     ELSE IF ~\E p \in db.profiles : p.user_id = new.user_id
     THEN Err("23502", db)
     ELSE InsertNotifications(db,
            <<Notification(created_by, "booking_created", new.session_id,
                           new.user_id)>>)

\* notify_booking_cancelled, AFTER DELETE ON bookings.
notify_booking_cancelled(db, old) ==
  LET created_by == IF HasSession(db, old.session_id)
                    THEN SessionById(db, old.session_id).created_by ELSE NULL
  IN IF created_by = NULL \/ created_by = old.user_id THEN Ok(db)
     ELSE IF ~\E p \in db.profiles : p.user_id = old.user_id
     THEN Err("23502", db)
     ELSE InsertNotifications(db,
            <<Notification(created_by, "booking_cancelled", old.session_id,
                           old.user_id)>>)

\* An insert of a booking that the database refuses when the session has
\* max_participants bookings already.
InsertBooking_when_not_full(db, uid, sid, user_id) ==
  IF uid = NULL \/ uid # user_id THEN Err("42501", db)
  ELSE IF ~HasSession(db, sid) \/ user_id \notin db.auth_users
          \/ ~\E p \in db.profiles : p.user_id = user_id
  THEN Err("23503", db)
  ELSE IF \E b \in db.bookings : b.session_id = sid /\ b.user_id = user_id
  THEN Err("23505", db)
  ELSE IF Cardinality({b \in db.bookings : b.session_id = sid})
            >= SessionById(db, sid).max_participants
  THEN Err("P0001", db)
  ELSE LET new == [id |-> BookingId(sid, user_id), session_id |-> sid,
                   user_id |-> user_id, reminder_sent |-> FALSE]
           ins == [db EXCEPT !.bookings = @ \cup {new}]
           trg == notify_booking_created(ins, new)
       IN IF trg.error # NULL THEN Err(trg.error, db) ELSE trg

\* INSERT INTO bookings (session_id, user_id) by client uid: policy "Users
\* can create own bookings", the foreign keys to sessions, auth.users and
\* profiles, UNIQUE (session_id, user_id), reminder_sent DEFAULT false, and
\* the on_booking_created trigger in the same statement.
InsertBooking(db, uid, sid, user_id) ==
  IF uid = NULL \/ uid # user_id THEN Err("42501", db)
  ELSE IF ~HasSession(db, sid) \/ user_id \notin db.auth_users
          \/ ~\E p \in db.profiles : p.user_id = user_id
  THEN Err("23503", db)
  ELSE IF \E b \in db.bookings : b.session_id = sid /\ b.user_id = user_id
  THEN Err("23505", db)
  ELSE LET new == [id |-> BookingId(sid, user_id), session_id |-> sid,
                   user_id |-> user_id, reminder_sent |-> FALSE]
           ins == [db EXCEPT !.bookings = @ \cup {new}]
           trg == notify_booking_created(ins, new)
       IN IF trg.error # NULL THEN Err(trg.error, db) ELSE trg

----------------------------------------------------------------------------
(* supabase/functions/session-reminders.                                   *)

WindowMinMinutes == 55
WindowMaxMinutes == 65
CronPeriodMinutes == 5

targetTimeMin(t) == TimeOfDay(t + WindowMinMinutes)
targetTimeMax(t) == TimeOfDay(t + WindowMaxMinutes)

\* A query that leaves the cancelled sessions out.
SessionsInWindow_not_cancelled(db, t) ==
  {s \in db.sessions : /\ s.session_date = Today(t)
                       /\ s.start_time >= targetTimeMin(t)
                       /\ s.start_time <= targetTimeMax(t)
                       /\ ~s.is_cancelled}

\* .eq('session_date', today).gte('start_time', min).lte('start_time', max)
SessionsInWindow(db, t) ==
  {s \in db.sessions : /\ s.session_date = Today(t)
                       /\ s.start_time >= targetTimeMin(t)
                       /\ s.start_time <= targetTimeMax(t)}

\* .eq('session_id', session.id).eq('reminder_sent', false)
PendingBookings(db, sid) ==
  {b \in db.bookings : b.session_id = sid /\ b.reminder_sent = FALSE}

\* The calls of one loop iteration that can be made to fail; each failure
\* ends the iteration, so one iteration meets at most one.
SessionFaults == {"none", "bookings", "insert", "update"}

\* One iteration of the loop over the sessions found.
RemindSession(db, sid, fault) ==
  LET pending == PendingBookings(db, sid)
      rows == SeqOf({Notification(b.user_id, "session_reminder", sid, NULL)
                       : b \in pending})
      ins == IF fault = "insert" THEN Err("fault", db)
             ELSE InsertNotifications(db, rows)
  IN IF fault = "bookings" \/ pending = {} THEN [db |-> db, sent |-> 0]
     ELSE IF ins.error # NULL THEN [db |-> db, sent |-> 0]
     ELSE IF fault = "update" THEN [db |-> ins.db, sent |-> 0]
     ELSE [db |-> [ins.db EXCEPT !.bookings =
                     {IF b \in pending THEN [b EXCEPT !.reminder_sent = TRUE]
                      ELSE b : b \in @}],
           sent |-> Cardinality(pending)]

\* A loop that ends at the first iteration in which a call fails.
RECURSIVE RemindSessions_until_failure(_, _, _)
RemindSessions_until_failure(db, sids, faults) ==
  IF sids = {} THEN [db |-> db, sent |-> 0, visited |-> {}]
  ELSE LET sid == CHOOSE x \in sids : TRUE
           one == RemindSession(db, sid, faults[sid])
           rest == IF faults[sid] # "none"
                   THEN [db |-> one.db, sent |-> 0, visited |-> {}]
                   ELSE RemindSessions_until_failure(one.db, sids \ {sid},
                                                     faults)
       IN [db |-> rest.db, sent |-> one.sent + rest.sent,
           visited |-> {sid} \cup rest.visited]

\* for (const session of sessions): every iteration ends normally or with
\* continue.  visited: the sessions whose iteration was entered.
RECURSIVE RemindSessions(_, _, _)
RemindSessions(db, sids, faults) ==
  IF sids = {} THEN [db |-> db, sent |-> 0, visited |-> {}]
  ELSE LET sid == CHOOSE x \in sids : TRUE
           one == RemindSession(db, sid, faults[sid])
           rest == RemindSessions(one.db, sids \ {sid}, faults)
       IN [db |-> rest.db, sent |-> one.sent + rest.sent,
           visited |-> {sid} \cup rest.visited]

ReminderCount(b) ==
  Cardinality({i \in 1..Len(notifications) :
                 /\ notifications[i].type = "session_reminder"
                 /\ notifications[i].user_id = b.user_id
                 /\ notifications[i].session_id = b.session_id})

----------------------------------------------------------------------------
(* public.generate_recurring_sessions (the latest definition).             *)

v_max_instances == 365

\* INTERVAL '2 years', in days.
v_max_period == 2 * 365

\* a != b is true: neither side NULL and the two differ (a NULL on either
\* side makes the comparison NULL, and IF takes NULL as not true).
SqlNeTrue(a, b) == a # NULL /\ b # NULL /\ a # b

\* What the period test the author meant would answer.
period_check_in_days(p_end_date, session_date) ==
  IF p_end_date - session_date > v_max_period THEN "true" ELSE "false"

\* The test left out.
period_check_dropped(p_end_date, session_date) == "false"

\* IF p_end_date - v_parent.session_date > v_max_period.  Both operands of
\* the subtraction are of type date, and date - date is an integer (a number
\* of days); Postgres has no operator integer > interval and no implicit cast
\* between the two, and PL/pgSQL plans the expression when the statement
\* first runs, so evaluating the test raises 42883 (operator does not exist:
\* integer > interval) whatever the dates are.
period_check(p_end_date, session_date) == "42883"

\* v_day_of_week matches the rule.
DayMatches(d, p_recurrence_type, p_recurrence_days, session_date) ==
  \/ p_recurrence_type = "daily"
  \/ p_recurrence_type = "weekly" /\ DOW(d) = DOW(session_date)
  \/ p_recurrence_type = "custom" /\ DOW(d) \in p_recurrence_days

\* The WHILE loop over the days first..p_end_date, entered with v_count
\* instances already inserted: the dates it inserts an instance for, in
\* order.  The range is split in two halves run one after the other, the
\* second entered with the count the first one left.
RECURSIVE InstanceDates(_, _, _, _, _, _)
InstanceDates(first, p_end_date, v_count, p_recurrence_type, p_recurrence_days, session_date) ==
  IF first > p_end_date THEN <<>>
  ELSE IF first = p_end_date
  THEN IF v_count < v_max_instances
          /\ DayMatches(first, p_recurrence_type, p_recurrence_days,
                        session_date)
       THEN <<first>> ELSE <<>>
  ELSE LET mid == (first + p_end_date) \div 2
           head == InstanceDates(first, mid, v_count, p_recurrence_type,
                                 p_recurrence_days, session_date)
       IN head \o InstanceDates(mid + 1, p_end_date, v_count + Len(head),
                                p_recurrence_type, p_recurrence_days,
                                session_date)

\* The row inserted for one date: the parent's columns, recurrence cleared.
InstanceRow(id, v_parent, date) ==
  [v_parent EXCEPT !.id = id, !.session_date = date, !.is_cancelled = FALSE,
                   !.recurrence_type = "none", !.recurrence_days = SqlNull,
                   !.recurrence_end_date = SqlNull,
                   !.parent_session_id = v_parent.id,
                   !.is_recurring_instance = TRUE]

\* The function called by uid (auth.uid(), NULL for an anonymous caller).
\* It is SECURITY DEFINER, so its inserts meet no policy; an exception undoes
\* whatever the call did.
generate_recurring_sessions(db, uid, p_parent_id, p_recurrence_type, p_recurrence_days, p_end_date) ==
  IF ~HasSession(db, p_parent_id) THEN Ok(db)
  ELSE
    LET v_parent == SessionById(db, p_parent_id)
        period == period_check(p_end_date, v_parent.session_date)
        dates == InstanceDates(v_parent.session_date + 1, p_end_date, 0,
                               p_recurrence_type, p_recurrence_days,
                               v_parent.session_date)
        rows == {InstanceRow(RowId(db.nextId + i - 1), v_parent, dates[i])
                   : i \in 1..Len(dates)}
    IN IF SqlNeTrue(v_parent.created_by, uid)
       THEN Err("Only session creator can generate recurring instances", db)
       ELSE IF period = "42883" THEN Err("42883", db)
       ELSE IF period = "true"
       THEN Err("Recurrence period too long (maximum 2 years)", db)
       ELSE IF p_end_date <= v_parent.session_date
       THEN Err("End date must be after session date", db)
       ELSE IF p_recurrence_type \notin {"daily", "weekly", "custom"}
       THEN Err("Invalid recurrence type", db)
       ELSE Ok([db EXCEPT !.sessions = @ \cup rows,
                          !.nextId = @ + Len(dates)])

----------------------------------------------------------------------------
(* The initial database: three signed-up users, u1 an admin, u3 signed up   *)
(* last and not yet approved.                                              *)

EmailOf(u) == CASE u = "u1" -> "a@x" [] u = "u2" -> "b@x" [] OTHER -> "c@x"

\* 10:00 UTC of day 1 (Monday 2026-01-05).
StartNow == 1 * 24 * 60 + 10 * 60

\* A row of profiles.  The migration that added the approval columns marked
\* the profiles that existed as approved (approved_at = now(), no approver);
\* handle_new_user inserts the later ones with is_approved = false.
ProfileRow(u, email, approved) ==
  [user_id |-> u, email |-> email, full_name |-> "n",
   is_approved |-> approved, approved_by |-> NULL, rejected_by |-> NULL,
   approved_at |-> IF approved THEN {0} ELSE {}, rejected_at |-> {}]

InitDatabase ==
  /\ auth_users = Users
  /\ user_roles = {[user_id |-> "u1", role |-> "admin"]}
                    \cup {[user_id |-> u, role |-> "member"] : u \in Users}
  /\ profiles = {ProfileRow(u, EmailOf(u), u # "u3") : u \in Users}
  /\ invites = {}
  /\ sessions = {}
  /\ bookings = {}
  /\ notifications = <<>>
  /\ nextId = 1
  /\ now = StartNow
  /\ response = [status |-> 0]
  /\ last = [op |-> "none"]
  /\ runLog = [at |-> 0, pending |-> {}]
  /\ fetched = [u \in Users |-> [sessions |-> {}, bookings |-> {}]]
  /\ running = [i \in Invocations |-> Idle]

\* The database has room for what a statement leaves behind.
WithinBounds(db) ==
  /\ Len(db.notifications) <= MaxNotifications
  /\ db.nextId <= MaxRows + 1

----------------------------------------------------------------------------
(* Client handlers on sessions and bookings.                               *)

\* CreateSessionDialog.handleSubmit: the form checks, the insert of the
\* session and, for a recurring one, the call of generate_recurring_sessions.
\* rend is the form's end date: SqlNull when left empty.
CreateSession(u, date, start, title, location, rtype, rdays, rend) ==
  LET row == SessionRow(RowId(nextId), u, title, location, date, start, rtype,
                        IF rtype = "custom" THEN NotNull(rdays) ELSE SqlNull,
                        IF rtype # "none" THEN rend ELSE SqlNull, NULL, FALSE)
      invalid == \/ date < Today(now)
                 \/ rtype # "none" /\ rend = SqlNull
                 \/ rtype = "custom" /\ rdays = {}
                 \/ \E d \in rend : d <= date
      ins == IF invalid THEN Err("invalid", DB) ELSE InsertSession(DB, u, row)
      rpc == IF ins.error = NULL /\ rtype # "none"
             THEN generate_recurring_sessions(ins.db, u, row.id, rtype,
                    IF rtype = "custom" THEN rdays ELSE {},
                    CHOOSE d \in rend : TRUE)
             ELSE ins
  IN /\ u \in auth_users
     /\ Cardinality(rpc.db.sessions) <= MaxSessions
     /\ WithinBounds(rpc.db)
     /\ Commit(rpc.db)
     /\ response' = [toast |-> IF ins.error # NULL THEN "error"
                               ELSE IF rpc.error # NULL THEN "warning"
                               ELSE "success"]
     /\ last' = [op |-> "createSession"]
     /\ UNCHANGED <<now, runLog, fetched, running>>

\* SessionCard.handleBook.
Book(u, sid) ==
  LET res == InsertBooking(DB, u, sid, u)
  IN /\ u \in auth_users
     /\ HasSession(DB, sid)
     /\ WithinBounds(res.db)
     /\ Commit(res.db)
     /\ response' = [toast |-> IF res.error = NULL THEN "success" ELSE "error"]
     /\ last' = [op |-> "book", user |-> u, session |-> sid,
                 error |-> res.error]
     /\ UNCHANGED <<now, runLog, fetched, running>>

\* The cron job fires every five minutes.
Tick ==
  /\ now < StartNow + MaxTicks * CronPeriodMinutes
  /\ now' = now + CronPeriodMinutes
  /\ UNCHANGED <<auth_users, user_roles, profiles, invites, sessions,
                 bookings, notifications, nextId, response, last, runLog,
                 fetched, running>>

\* One request to session-reminders, start to finish.  queryFails: the
\* sessions query returns an error; faults: the failing call, if any, of each
\* loop iteration.
SessionReminders(method, queryFails, faults) ==
  LET found == SessionsInWindow(DB, now)
      ids == {s.id : s \in found}
      run == RemindSessions(DB, ids, faults)
      pending == UNION {PendingBookings(DB, sid) : sid \in ids}
      skip == method = "OPTIONS" \/ queryFails
      out == IF skip THEN DB ELSE run.db
  IN /\ WithinBounds(out)
     /\ Commit(out)
     /\ response' =
          IF method = "OPTIONS" THEN [status |-> 200, body |-> "ok"]
          ELSE IF queryFails THEN [status |-> 500]
          ELSE IF found = {} THEN [status |-> 200, reminders_sent |-> 0]
          ELSE [status |-> 200, reminders_sent |-> run.sent,
                sessions_checked |-> Cardinality(found)]
     /\ last' = [op |-> "session-reminders", method |-> method,
                 faultFree |-> ~queryFails /\ \A sid \in ids : faults[sid] = "none",
                 pending |-> pending, before |-> Len(notifications),
                 earlier |-> runLog, queryFails |-> queryFails, at |-> now,
                 found |-> found, faults |-> faults,
                 visited |-> IF skip THEN {} ELSE run.visited]
     /\ runLog' = IF skip THEN runLog
                  ELSE [at |-> now, pending |-> {b.id : b \in pending}]
     /\ UNCHANGED <<now, fetched, running>>

StartTimes == {11 * 60, 13 * 60}

ReminderNext ==
  \/ \E start \in StartTimes :
       CreateSession("u1", Today(now), start, "t1", "l1", "none", {}, SqlNull)
  \/ \E u \in {"u1", "u2"}, s \in sessions : Book(u, s.id)
  \/ Tick
  \/ \E method \in {"POST", "OPTIONS"}, queryFails \in BOOLEAN :
       \E faults \in [{s.id : s \in SessionsInWindow(DB, now)} -> SessionFaults] :
         SessionReminders(method, queryFails, faults)

SpecReminders == InitDatabase /\ [][ReminderNext]_vars

----------------------------------------------------------------------------
(* Claims about session-reminders.                                         *)

C2_RunDelivers ==
  (last.op = "session-reminders" /\ last.method = "POST" /\ last.faultFree) =>
    \A b \in last.pending :
      /\ \E c \in bookings : c.id = b.id /\ c.reminder_sent = TRUE
      /\ Cardinality({i \in (last.before + 1)..Len(notifications) :
                        /\ notifications[i].user_id = b.user_id
                        /\ notifications[i].session_id = b.session_id}) = 1

----------------------------------------------------------------------------
(* Recurring sessions.                                                     *)

\* supabase.rpc('generate_recurring_sessions', ...) called directly by uid.
GenerateRecurringSessions(uid, p_parent_id, p_recurrence_type, p_recurrence_days, p_end_date) ==
  LET res == generate_recurring_sessions(DB, uid, p_parent_id,
               p_recurrence_type, p_recurrence_days, p_end_date)
  IN /\ Cardinality(sessions) <= MaxSessions
     /\ Commit(res.db)
     /\ response' = [error |-> res.error]
     /\ last' = [op |-> "generate", uid |-> uid, parent |-> p_parent_id,
                 type |-> p_recurrence_type, days |-> p_recurrence_days,
                 end |-> p_end_date, error |-> res.error,
                 before |-> sessions]
     /\ UNCHANGED <<now, runLog, fetched, running>>

----------------------------------------------------------------------------
(* auth.admin.deleteUser and the foreign keys that hang on auth.users.     *)

\* The AFTER DELETE triggers of the bookings a cascade removed.
RECURSIVE BookingsCancelled(_, _)
BookingsCancelled(db, olds) ==
  IF olds = <<>> THEN Ok(db)
  ELSE LET trg == notify_booking_cancelled(db, Head(olds))
       IN IF trg.error # NULL THEN trg
          ELSE BookingsCancelled(trg.db, Tail(olds))

\* DELETE FROM auth.users WHERE id = target.  profiles and user_roles go
\* (ON DELETE CASCADE), invites.invited_by and sessions.created_by become
\* NULL (ON DELETE SET NULL), the user's bookings go through either of their
\* two foreign keys: the one to auth.users, fired while the profile row is
\* still there, or the one to profiles, fired once it is gone.  Which fires
\* first is the catalog's order (profilesFirst).  An error in a trigger
\* undoes the whole delete.
DeleteAuthUser(db, target, profilesFirst) ==
  IF target \notin db.auth_users THEN Err("user_not_found", db)
  ELSE
    LET gone == {b \in db.bookings : b.user_id = target}
        rest == {p \in db.profiles : p.user_id # target}
        seen == [db EXCEPT !.bookings = @ \ gone,
                           !.profiles = IF profilesFirst THEN rest ELSE @]
        trg == BookingsCancelled(seen, SeqOf(gone))
    IN IF trg.error # NULL THEN Err(trg.error, db)
       ELSE Ok([trg.db EXCEPT
                  !.auth_users = @ \ {target},
                  !.profiles = rest,
                  !.user_roles = {r \in @ : r.user_id # target},
                  !.invites = {IF i.invited_by = target
                               THEN [i EXCEPT !.invited_by = NULL] ELSE i
                                 : i \in @},
                  !.sessions = {IF x.created_by = target
                                THEN [x EXCEPT !.created_by = NULL] ELSE x
                                  : x \in @}])

----------------------------------------------------------------------------
(* The invites table.                                                      *)

\* The conversion left out.
keepCase(email) == email

\* String.prototype.toLowerCase on the addresses the model uses.
toLowerCase(email) ==
  CASE email = "D@x" -> "d@x"
    [] email = "B@x" -> "b@x"
    [] OTHER -> email

InviteCode(n) == "c" \o ToString(n)

\* INSERT INTO invites (email, invited_by): UNIQUE (email), invite_code
\* DEFAULT a fresh random code, used DEFAULT false.
InsertInvite(db, email, invited_by) ==
  IF \E i \in db.invites : i.email = email THEN Err("23505", db)
  ELSE Ok([db EXCEPT
             !.invites = @ \cup {[email |-> email,
                                  invite_code |-> InviteCode(db.nextId),
                                  invited_by |-> invited_by,
                                  used |-> FALSE]},
             !.nextId = @ + 1])

InviteByEmail(db, email) == CHOOSE i \in db.invites : i.email = email

----------------------------------------------------------------------------
(* supabase/functions/admin-users.                                         *)

Reply(status, body, db) == [status |-> status, body |-> body, db |-> db]

\* authHeader?.startsWith("Bearer ")
IsBearer(authHeader) == authHeader.scheme = "Bearer"

\* userClient.auth.getClaims(token): the sub of a token that verifies, NULL
\* for any other.
getClaims(authHeader) ==
  IF authHeader.jwt \in Users THEN authHeader.jwt ELSE NULL

\* The checks without the one on the admin role.
Authorize_any_user(db, authHeader) ==
  IF ~IsBearer(authHeader) THEN Reply(401, "Non autorisé", db)
  ELSE IF getClaims(authHeader) = NULL THEN Reply(401, "Non autorisé", db)
  ELSE Reply(0, "", db)

\* The credential and role checks both versions of the handler start with:
\* the reply that ends the request, or status 0 to go on.
Authorize(db, authHeader) ==
  IF ~IsBearer(authHeader) THEN Reply(401, "Non autorisé", db)
  ELSE IF getClaims(authHeader) = NULL THEN Reply(401, "Non autorisé", db)
  ELSE IF ~has_role(db, getClaims(authHeader), "admin")
  THEN Reply(403, "Accès refusé - Admin requis", db)
  ELSE Reply(0, "", db)

\* The delete action without its self-deletion guard.
DeleteUserAction_unguarded(db, userId, body, profilesFirst) ==
  IF body.userId = NULL THEN Reply(400, "userId requis", db)
  ELSE LET res == DeleteAuthUser(db, body.userId, profilesFirst)
       IN IF res.error # NULL THEN Reply(500, res.error, db)
          ELSE Reply(200, "success", res.db)

\* action 'delete' / method DELETE.
DeleteUserAction(db, userId, body, profilesFirst) ==
  IF body.userId = NULL THEN Reply(400, "userId requis", db)
  ELSE IF body.userId = userId
  THEN Reply(400, "Vous ne pouvez pas vous supprimer vous-même", db)
  ELSE LET res == DeleteAuthUser(db, body.userId, profilesFirst)
       IN IF res.error # NULL THEN Reply(500, res.error, db)
          ELSE Reply(200, "success", res.db)

\* action 'updateEmail' / method PATCH: auth.admin.updateUserById, then the
\* update of profiles.email.
UpdateEmailAction(db, body) ==
  IF body.userId = NULL \/ body.email = NULL
  THEN Reply(400, "userId et email requis", db)
  ELSE IF body.userId \notin db.auth_users
  THEN Reply(500, "user_not_found", db)
  ELSE IF \E p \in db.profiles :
            p.user_id # body.userId
            /\ toLowerCase(p.email) = toLowerCase(body.email)
  THEN Reply(500, "email_exists", db)
  ELSE Reply(200, "success",
             [db EXCEPT !.profiles =
                {IF p.user_id = body.userId
                  THEN [p EXCEPT !.email = body.email] ELSE p
                   : p \in @}])

AppRoles == {"admin", "member"}

\* INSERT INTO user_roles of one row per listed role: role is an app_role,
\* user_id references auth.users, UNIQUE (user_id, role).
InsertRoles(db, userId, roles) ==
  IF \E i \in 1..Len(roles) : roles[i] \notin AppRoles THEN Err("22P02", db)
  ELSE IF userId \notin db.auth_users THEN Err("23503", db)
  ELSE IF Cardinality(Range(roles)) # Len(roles) THEN Err("23505", db)
  ELSE IF \E r \in Range(roles) : [user_id |-> userId, role |-> r] \in db.user_roles
  THEN Err("23505", db)
  ELSE Ok([db EXCEPT !.user_roles =
             @ \cup {[user_id |-> userId, role |-> r] : r \in Range(roles)}])

\* action 'updateRoles'.  body.roles is SqlNull when it is not an array.  The
\* delete and the insert are two statements: a failed insert leaves the
\* delete in place.
UpdateRolesAction(db, userId, body) ==
  IF body.userId = NULL \/ body.roles = SqlNull
  THEN Reply(400, "userId et roles requis", db)
  ELSE
    LET roles == CHOOSE r \in body.roles : TRUE
        deleted == [db EXCEPT !.user_roles =
                      {r \in @ : r.user_id # body.userId}]
        ins == InsertRoles(deleted, body.userId, roles)
    IN IF body.userId = userId /\ "admin" \notin Range(roles)
       THEN Reply(400, "Vous ne pouvez pas retirer votre propre rôle admin",
                  db)
       ELSE IF roles = <<>> THEN Reply(200, "success", deleted)
       ELSE IF ins.error # NULL THEN Reply(500, ins.error, deleted)
       ELSE Reply(200, "success", ins.db)

\* The handler that routes on body.action.
admin_users(db, req, profilesFirst) ==
  LET auth == Authorize(db, req.authHeader)
      userId == getClaims(req.authHeader)
      action == IF req.body.action = NULL THEN "list" ELSE req.body.action
  IN IF req.method = "OPTIONS" THEN Reply(200, "ok", db)
     ELSE IF auth.status # 0 THEN auth
     ELSE IF action = "list" THEN Reply(200, "users", db)
     ELSE IF action = "delete"
     THEN DeleteUserAction(db, userId, req.body, profilesFirst)
     ELSE IF action = "updateEmail" THEN UpdateEmailAction(db, req.body)
     ELSE IF action = "updateRoles"
     THEN UpdateRolesAction(db, userId, req.body)
     ELSE Reply(405, "Action non supportée", db)

\* method POST of the handler that routes on the method: a recovery link for
\* an address that has a profile, an invite for any other.
InviteAction(db, userId, body) ==
  IF body.email = NULL THEN Reply(400, "email requis", db)
  ELSE IF \E p \in db.profiles : p.email = body.email
  THEN Reply(200, "recovery", db)
  ELSE LET ins == InsertInvite(db, toLowerCase(body.email), userId)
       IN IF ins.error = "23505"
          THEN Reply(200,
                     InviteByEmail(db, toLowerCase(body.email)).invite_code,
                     db)
          ELSE Reply(200,
                     InviteByEmail(ins.db,
                                   toLowerCase(body.email)).invite_code,
                     ins.db)

\* The handler that routes on the request method.
admin_users_by_method(db, req, profilesFirst) ==
  LET auth == Authorize(db, req.authHeader)
      userId == getClaims(req.authHeader)
  IN IF req.method = "OPTIONS" THEN Reply(200, "ok", db)
     ELSE IF auth.status # 0 THEN auth
     ELSE IF req.method = "GET" THEN Reply(200, "users", db)
     ELSE IF req.method = "DELETE"
     THEN DeleteUserAction(db, userId, req.body, profilesFirst)
     ELSE IF req.method = "PATCH" THEN UpdateEmailAction(db, req.body)
     ELSE IF req.method = "POST" THEN InviteAction(db, userId, req.body)
     ELSE Reply(405, "Méthode non supportée", db)

\* What a request leaves of the tables the handler can write.
AdminTables(db) ==
  [auth_users |-> db.auth_users, user_roles |-> db.user_roles,
   profiles |-> db.profiles, invites |-> db.invites]

\* One request served, by either version of the handler.
AdminUsers(version, req, profilesFirst) ==
  LET res == IF version = "action" THEN admin_users(DB, req, profilesFirst)
             ELSE admin_users_by_method(DB, req, profilesFirst)
  IN /\ WithinBounds(res.db)
     /\ Commit(res.db)
     /\ response' = [status |-> res.status, body |-> res.body]
     /\ last' = [op |-> "admin-users", version |-> version, req |-> req,
                 sub |-> getClaims(req.authHeader),
                 bearer |-> IsBearer(req.authHeader),
                 admin |-> has_role(DB, getClaims(req.authHeader), "admin"),
                 before |-> AdminTables(DB)]
     /\ UNCHANGED <<now, runLog, fetched, running>>

\* InviteUserDialog.handleSubmit: the insert runs as the signed-in user under
\* the policy "Admins can manage invites".
InviteUser(u, email) ==
  LET res == IF ~has_role(DB, u, "admin") THEN Err("42501", DB)
             ELSE InsertInvite(DB, toLowerCase(email), u)
  IN /\ u \in auth_users
     /\ Commit(res.db)
     /\ response' =
          [toast |-> IF res.error = "23505" THEN "Cet email a déjà été invité"
                     ELSE IF res.error # NULL
                     THEN "Échec de la création de l'invitation"
                     ELSE "Invitation créée !",
           inviteCode |-> IF res.error # NULL THEN NULL
                          ELSE InviteByEmail(res.db,
                                             toLowerCase(email)).invite_code]
     /\ last' = [op |-> "inviteUser", user |-> u, email |-> email,
                 error |-> res.error, before |-> AdminTables(DB)]
     /\ UNCHANGED <<now, runLog, fetched, running>>

----------------------------------------------------------------------------
(* Recurring sessions: a creator, another member, an anonymous caller, and *)
(* the admin who deletes the creator's account.                            *)

DaySets == {{1, 3}, {}}

\* Day 1 is 2026-01-05; two years later is day 1 + v_max_period.
EndDates == {1, 15, 1 + v_max_period, 2 + v_max_period}

BearerOf(u) == [scheme |-> "Bearer", jwt |-> u]

Body(action, userId, email, roles) ==
  [action |-> action, userId |-> userId, email |-> email, roles |-> roles]

Request(method, authHeader, body) ==
  [method |-> method, authHeader |-> authHeader, body |-> body]

RecurrenceNext ==
  \/ \E rtype \in {"none", "custom"}, rend \in {SqlNull, {1}, {15}} :
       CreateSession("u2", Today(now), 11 * 60, "t1", "l1", rtype, {1, 3},
                     rend)
  \/ \E uid \in {"u2", "u3", NULL}, n \in 0..1,
        type \in {"daily", "weekly", "custom", "monthly"},
        days \in DaySets, end \in EndDates :
       GenerateRecurringSessions(uid, RowId(n), type, days, end)
  \/ AdminUsers("action",
                Request("POST", BearerOf("u1"),
                        Body("delete", "u2", NULL, SqlNull)), TRUE)

SpecRecurrence == InitDatabase /\ [][RecurrenceNext]_vars

\* The calendar days the rule of a request selects.
MatchingDays(date, type, days, end) ==
  {d \in (date + 1)..end :
     \/ type = "daily"
     \/ type = "weekly" /\ DOW(d) = DOW(date)
     \/ type = "custom" /\ DOW(d) \in days}

\* The last call was made on an existing parent.
GenerateCalledOn(p) ==
  last.op = "generate" /\ p \in last.before /\ p.id = last.parent

\* C3: every accepted generate_recurring_sessions request (the caller is the
\* parent's creator, the type is daily, weekly or custom, the end date is
\* after the parent's date and at most two years after it) that stays under
\* the 365-instance cap succeeds and inserts one instance per calendar day d
\* with parent date < d <= end date that matches the rule, and no other.
C3_InstancesMatchRule ==
  \A p \in sessions :
    ( /\ GenerateCalledOn(p)
      /\ last.uid = p.created_by
      /\ last.type \in {"daily", "weekly", "custom"}
      /\ p.session_date < last.end
      /\ last.end <= p.session_date + v_max_period
      /\ Cardinality(MatchingDays(p.session_date, last.type, last.days,
                                  last.end)) < v_max_instances )
    => /\ last.error = NULL
       /\ {x.session_date : x \in sessions \ last.before}
            = MatchingDays(p.session_date, last.type, last.days, last.end)
       /\ Cardinality(sessions \ last.before)
            = Cardinality(MatchingDays(p.session_date, last.type, last.days,
                                       last.end))

\* C4: a generate_recurring_sessions call on an existing parent whose end
\* date is on or before the parent's date, or more than two years after it,
\* ends in an error and leaves the sessions table as it was.
C4_BadEndDateRejected ==
  last.op = "generate" =>
  \A p \in last.before :
    ( /\ GenerateCalledOn(p)
      /\ \/ last.end <= p.session_date
         \/ last.end > p.session_date + v_max_period )
    => last.error # NULL /\ sessions = last.before

C4_Witness ==
  /\ last.op = "generate"
  /\ \E p \in last.before :
       /\ p.id = last.parent
       /\ p.created_by = last.uid
       /\ last.type = "daily"
       /\ last.end > p.session_date + v_max_period
  /\ last.error # NULL
  /\ sessions = last.before

----------------------------------------------------------------------------
(* The admin panel: requests to either version of admin-users, with and    *)
(* without credentials, and the invite dialog.                             *)

NoHeader == [scheme |-> "none", jwt |-> "none"]

\* Headers that carry no valid Bearer credential.
BadHeaders ==
  {NoHeader, [scheme |-> "Basic", jwt |-> "none"],
   [scheme |-> "Bearer", jwt |-> "bad"]}

RoleLists ==
  {SqlNull, NotNull(<<>>), NotNull(<<"member">>),
   NotNull(<<"admin", "member">>), NotNull(<<"admin", "owner">>)}

\* Bodies of the requests the panel and other clients send by action.
ActionBodies ==
  {Body(NULL, NULL, NULL, SqlNull), Body("invite", NULL, "D@x", SqlNull),
   Body("updateEmail", "u3", "D@x", SqlNull)}
    \cup {Body("delete", userId, NULL, SqlNull) : userId \in {NULL} \cup Users}
    \cup {Body("updateRoles", userId, NULL, roles)
            : userId \in {"u1", "u2"}, roles \in RoleLists}

\* Requests to the handler that routes on body.action: every body from a
\* signed-in user, a delete and a role update without credentials, and
\* preflights.
ActionRequests ==
  {Request("POST", BearerOf(u), body)
     : u \in {"u1", "u2"}, body \in ActionBodies}
   \cup {Request(method, authHeader, body)
           : method \in {"POST", "OPTIONS"}, authHeader \in BadHeaders,
             body \in {Body("delete", "u3", NULL, SqlNull),
                       Body("updateRoles", "u2", NULL,
                            NotNull(<<"admin", "member">>))}}
   \cup {Request("OPTIONS", BearerOf("u2"),
                 Body("delete", "u3", NULL, SqlNull))}

\* Requests to the handler that routes on the method.
MethodRequests ==
  {Request(method, authHeader, Body(NULL, userId, NULL, SqlNull))
     : method \in {"GET", "DELETE", "PUT", "OPTIONS"},
       authHeader \in {NoHeader, BearerOf("u1"), BearerOf("u2")},
       userId \in {"u1", "u3"}}
   \cup {Request("POST", authHeader, Body(NULL, NULL, email, SqlNull))
           : authHeader \in {NoHeader, BearerOf("u1"), BearerOf("u2")},
             email \in {"D@x", "d@x", "b@x"}}
   \cup {Request("PATCH", authHeader, Body(NULL, "u3", "D@x", SqlNull))
           : authHeader \in {NoHeader, BearerOf("u1"), BearerOf("u2")}}

AdminNext ==
  \/ \E req \in ActionRequests : AdminUsers("action", req, TRUE)
  \/ \E req \in MethodRequests : AdminUsers("method", req, TRUE)
  \/ \E u \in {"u1", "u2"}, email \in {"D@x", "d@x"} : InviteUser(u, email)

SpecAdmin == InitDatabase /\ [][AdminNext]_vars

\* The tables the handler can write are as the last request found them.
NoMutation == AdminTables(DB) = last.before

\* With a Bearer token that verifies.
ValidCredential == last.bearer /\ last.sub # NULL

\* The last request was served, past the preflight answer, as a delete.
DeleteRequest ==
  /\ last.op = "admin-users"
  /\ last.req.method # "OPTIONS"
  /\ \/ last.version = "action" /\ last.req.body.action = "delete"
     \/ last.version = "method" /\ last.req.method = "DELETE"

\* ... as an updateRoles with a role list.
UpdateRolesRequest ==
  /\ last.op = "admin-users"
  /\ last.req.method # "OPTIONS"
  /\ last.version = "action" /\ last.req.body.action = "updateRoles"
  /\ last.req.body.roles # SqlNull

SelfDelete ==
  DeleteRequest /\ ValidCredential /\ last.req.body.userId = last.sub

SelfDemote ==
  /\ UpdateRolesRequest
  /\ ValidCredential
  /\ last.req.body.userId = last.sub
  /\ \A roles \in last.req.body.roles : "admin" \notin Range(roles)

\* C6: a delete request whose userId is the caller's own id, and an
\* updateRoles request on the caller's own id with a role list without
\* 'admin', change no user and no user_roles row and are answered 400 when
\* the caller is the admin the handler lets through (403 when the caller
\* holds no admin role).
C6_SelfRequestsRejected ==
  (SelfDelete \/ SelfDemote)
    => /\ response.status = IF last.admin THEN 400 ELSE 403
       /\ NoMutation

C6_Witness ==
  /\ SelfDemote
  /\ last.admin
  /\ response.status = 400
  /\ NoMutation

\* C10 as stated: every request without a valid Bearer credential is answered
\* 401 and every request of an authenticated caller without the admin role
\* 403, and neither changes a user, profile, role or invite row.
C10_EveryRequestChecked ==
  last.op = "admin-users"
    => /\ ~ValidCredential => response.status = 401 /\ NoMutation
       /\ (ValidCredential /\ ~last.admin)
            => response.status = 403 /\ NoMutation

\* C10: every request other than an OPTIONS preflight is answered 401 without
\* a valid Bearer credential and 403 with one whose user holds no admin
\* role; an OPTIONS request is answered 200 before any credential is looked
\* at; none of the three changes a user, profile, role or invite row.
C10_NonPreflightChecked ==
  last.op = "admin-users"
    => /\ (last.req.method # "OPTIONS" /\ ~ValidCredential)
            => response.status = 401 /\ NoMutation
       /\ (last.req.method # "OPTIONS" /\ ValidCredential /\ ~last.admin)
            => response.status = 403 /\ NoMutation
       /\ last.req.method = "OPTIONS"
            => response.status = 200 /\ NoMutation

C10_Witness ==
  /\ last.op = "admin-users"
  /\ last.req.method = "POST"
  /\ last.req.body.action = "delete"
  /\ last.req.body.userId = "u3"
  /\ ValidCredential
  /\ ~last.admin
  /\ response.status = 403
  /\ "u3" \in auth_users

\* The mailbox an address names, whatever its case.
Mailbox(email) ==
  CASE email \in {"D@x", "d@x"} -> "d"
    [] email \in {"B@x", "b@x"} -> "b"
    [] OTHER -> email

\* The unused invites the address had when the last operation began.
InvitesBefore(email) ==
  {i \in last.before.invites : Mailbox(i.email) = Mailbox(email) /\ ~i.used}

\* The last operation was an invite, by an admin, of an address that had an
\* unused invite: through the POST path of the handler ...
ReinviteByHandler ==
  /\ last.op = "admin-users"
  /\ last.version = "method" /\ last.req.method = "POST"
  /\ ValidCredential /\ last.admin
  /\ last.req.body.email # NULL
  /\ ~\E p \in last.before.profiles : p.email = last.req.body.email
  /\ InvitesBefore(last.req.body.email) # {}

\* ... or through the invite dialog.
ReinviteByDialog ==
  /\ last.op = "inviteUser"
  /\ \E r \in last.before.user_roles : r.user_id = last.user /\ r.role = "admin"
  /\ InvitesBefore(last.email) # {}

OneInvitePerMailbox ==
  \A i, j \in invites : Mailbox(i.email) = Mailbox(j.email) => i = j

----------------------------------------------------------------------------
(* Editing, cancelling and deleting: the statements, their policies and    *)
(* their triggers.                                                         *)

\* The trigger without its filter on the organizer.
notify_session_modified_everyone(db, old, new) ==
  IF /\ old.title = new.title /\ old.session_date = new.session_date
     /\ old.start_time = new.start_time /\ old.end_time = new.end_time
     /\ old.location = new.location
  THEN Ok(db)
  ELSE InsertNotifications(db,
         SeqOf({Notification(b.user_id, "session_modified", new.id, new.created_by)
                  : b \in {c \in db.bookings : c.session_id = new.id}}))

\* notify_session_modified, AFTER UPDATE ON sessions.
notify_session_modified(db, old, new) ==
  IF /\ old.title = new.title /\ old.session_date = new.session_date
     /\ old.start_time = new.start_time /\ old.end_time = new.end_time
     /\ old.location = new.location
  THEN Ok(db)
  ELSE InsertNotifications(db,
         SeqOf({Notification(b.user_id, "session_modified", new.id, new.created_by)
                  : b \in {c \in db.bookings :
                             /\ c.session_id = new.id
                             /\ SqlNeTrue(c.user_id, new.created_by)}}))

\* UPDATE sessions SET location = ... WHERE id = sid, by client uid, under
\* "Admins or creators can update sessions": a row the policy hides is not
\* updated and raises nothing.
UpdateSessionLocation(db, uid, sid, location) ==
  IF ~HasSession(db, sid) THEN Ok(db)
  ELSE LET old == SessionById(db, sid)
           new == [old EXCEPT !.location = location]
           upd == [db EXCEPT !.sessions = (@ \ {old}) \cup {new}]
           trg == notify_session_modified(upd, old, new)
       IN IF uid = NULL \/ ~(has_role(db, uid, "admin") \/ uid = old.created_by)
          THEN Ok(db)
          ELSE IF trg.error # NULL THEN Err(trg.error, db)
          ELSE trg

\* notify_session_cancelled, BEFORE DELETE ON sessions.
notify_session_cancelled(db, old) ==
  InsertNotifications(db,
    SeqOf({Notification(b.user_id, "session_cancelled", NULL, old.created_by)
             : b \in {c \in db.bookings :
                        /\ c.session_id = old.id
                        /\ SqlNeTrue(c.user_id, old.created_by)}}))

\* A delete that leaves the instances of the deleted row in place.
RECURSIVE DeleteSessionRows_keeping_instances(_, _)
DeleteSessionRows_keeping_instances(db, sids) ==
  IF sids = <<>> THEN Ok(db)
  ELSE
    LET old == SessionById(db, Head(sids))
        trg == notify_session_cancelled(db, old)
        gone == {b \in db.bookings : b.session_id = old.id}
        Keep(n) == n.session_id # old.id
        removed == [trg.db EXCEPT !.sessions = @ \ {old},
                                  !.bookings = @ \ gone,
                                  !.notifications = SelectSeq(@, Keep)]
        cancelled == BookingsCancelled(removed, SeqOf(gone))
    IN IF trg.error # NULL THEN Err(trg.error, db)
       ELSE IF cancelled.error # NULL THEN Err(cancelled.error, db)
       ELSE DeleteSessionRows_keeping_instances(cancelled.db, Tail(sids))

\* The rows deleted from sessions, one after the other: the BEFORE DELETE
\* trigger, the row, then what references it ON DELETE CASCADE: its bookings
\* (with their AFTER DELETE trigger), the notifications that point at it and
\* the instances it is the parent of.
RECURSIVE DeleteSessionRows(_, _)
DeleteSessionRows(db, sids) ==
  IF sids = <<>> THEN Ok(db)
  ELSE
    LET old == SessionById(db, Head(sids))
        trg == notify_session_cancelled(db, old)
        gone == {b \in db.bookings : b.session_id = old.id}
        Keep(n) == n.session_id # old.id
        removed == [trg.db EXCEPT !.sessions = @ \ {old},
                                  !.bookings = @ \ gone,
                                  !.notifications = SelectSeq(@, Keep)]
        cancelled == BookingsCancelled(removed, SeqOf(gone))
        children == {c.id : c \in {x \in db.sessions :
                                     x.parent_session_id = old.id}}
    IN IF trg.error # NULL THEN Err(trg.error, db)
       ELSE IF cancelled.error # NULL THEN Err(cancelled.error, db)
       ELSE DeleteSessionRows(cancelled.db, SeqOf(children) \o Tail(sids))

\* DELETE FROM sessions WHERE id = sid, by client uid, under "Admins or
\* creators can delete sessions".
DeleteSessionStatement(db, uid, sid) ==
  IF ~HasSession(db, sid) THEN Ok(db)
  ELSE IF uid = NULL
          \/ ~(has_role(db, uid, "admin") \/ uid = SessionById(db, sid).created_by)
  THEN Ok(db)
  ELSE LET res == DeleteSessionRows(db, <<sid>>)
       IN IF res.error # NULL THEN Err(res.error, db) ELSE res

\* DELETE FROM bookings WHERE the rows in olds, by client uid, under "Users
\* can delete own bookings": the rows of other users stay.
DeleteBookings(db, uid, olds) ==
  LET own == {b \in olds : b.user_id = uid}
      trg == BookingsCancelled([db EXCEPT !.bookings = @ \ own], SeqOf(own))
  IN IF trg.error # NULL THEN Err(trg.error, db) ELSE trg

\* Notifications of one type addressed to u.
CountOf(q, type, u) ==
  Cardinality({i \in 1..Len(q) : q[i].type = type /\ q[i].user_id = u})

\* SessionCard.handleCancel.
Cancel(u, sid) ==
  LET olds == {b \in bookings : b.session_id = sid /\ b.user_id = u}
      res == DeleteBookings(DB, u, olds)
  IN /\ u \in auth_users
     /\ HasSession(DB, sid)
     /\ WithinBounds(res.db)
     /\ Commit(res.db)
     /\ response' = [toast |-> IF res.error = NULL THEN "success" ELSE "error"]
     /\ last' = [op |-> "cancel", user |-> u, session |-> sid,
                 error |-> res.error, had |-> olds # {}]
     /\ UNCHANGED <<now, runLog, fetched, running>>

\* An edit of the location of a session, sent as an update of the row.
UpdateSession(u, sid, location) ==
  LET res == UpdateSessionLocation(DB, u, sid, location)
  IN /\ u \in auth_users
     /\ HasSession(DB, sid)
     /\ WithinBounds(res.db)
     /\ Commit(res.db)
     /\ response' = [error |-> res.error]
     /\ last' = [op |-> "updateSession", user |-> u, session |-> sid,
                 error |-> res.error,
                 old |-> SessionById(DB, sid).location,
                 modified |-> [v \in Users |->
                                 CountOf(notifications, "session_modified", v)]]
     /\ UNCHANGED <<now, runLog, fetched, running>>

\* SessionCard.handleDeleteSession: nothing unless the user is the creator or
\* an admin; the delete of the session's bookings, its error ignored; the
\* delete of the session.
DeleteSession(u, sid) ==
  LET session == SessionById(DB, sid)
      canDelete == session.created_by = u \/ has_role(DB, u, "admin")
      first == DeleteBookings(DB, u, {b \in bookings : b.session_id = sid})
      second == DeleteSessionStatement(first.db, u, sid)
      res == IF canDelete THEN second ELSE Ok(DB)
  IN /\ u \in auth_users
     /\ HasSession(DB, sid)
     /\ WithinBounds(res.db)
     /\ Commit(res.db)
     /\ response' = [toast |-> IF ~canDelete THEN "none"
                               ELSE IF res.error = NULL THEN "success"
                               ELSE "error"]
     /\ last' = [op |-> "deleteSession", user |-> u, session |-> sid,
                 canDelete |-> canDelete, error |-> res.error,
                 created_by |-> session.created_by,
                 booked |-> {b.user_id : b \in {c \in bookings :
                                                  c.session_id = sid}},
                 cancelled |-> [v \in Users |->
                                  CountOf(notifications, "session_cancelled",
                                          v)]]
     /\ UNCHANGED <<now, runLog, fetched, running>>

\* u2 creates the sessions; u2 and u3 book and cancel; u2 and the admin u1
\* edit; anyone tries to delete; u1 deletes u2's account.
NotifyNext ==
  \/ CreateSession("u2", Today(now), 11 * 60, "t1", "l1", "none", {}, SqlNull)
  \/ \E u \in {"u2", "u3"}, s \in sessions : Book(u, s.id)
  \/ \E u \in {"u2", "u3"}, s \in sessions : Cancel(u, s.id)
  \/ \E u \in {"u1", "u2"}, s \in sessions : UpdateSession(u, s.id, "l2")
  \/ \E u \in Users, s \in sessions : DeleteSession(u, s.id)
  \/ \E profilesFirst \in BOOLEAN :
       AdminUsers("action",
                  Request("POST", BearerOf("u1"),
                          Body("delete", "u2", NULL, SqlNull)),
                  profilesFirst)

SpecNotify == InitDatabase /\ [][NotifyNext]_vars

\* C8: a session deleted through the session card leaves, for every user, one
\* new session_cancelled notification if the user held a booking of the
\* session and is not its creator, and none otherwise (none at all when the
\* session had no booking).
C8_DeleteNotifiesBooked ==
  (last.op = "deleteSession" /\ last.canDelete /\ last.error = NULL)
    => \A v \in Users :
         CountOf(notifications, "session_cancelled", v) - last.cancelled[v]
           = IF v \in last.booked /\ v # last.created_by THEN 1 ELSE 0

\* A notification of the given type for user v about session sid by actor.
Notified(v, type, sid, actor) ==
  \E i \in 1..Len(notifications) :
    notifications[i] = Notification(v, type, sid, actor)

\* The last operation was B's booking of a session of another user A.
Booked(A, B, x) ==
  /\ last.op = "book" /\ last.error = NULL
  /\ last.user = B /\ last.session = x.id
  /\ x.created_by = A /\ A # B

\* ... B's cancellation of the booking B held.
Cancelled(A, B, x) ==
  /\ last.op = "cancel" /\ last.error = NULL /\ last.had
  /\ last.user = B /\ last.session = x.id
  /\ x.created_by = A /\ A # B

\* ... A's edit of the location of the session B booked and cancelled.
EditedAfterCancel(A, B, x) ==
  /\ last.op = "updateSession" /\ last.error = NULL
  /\ last.user = A /\ last.session = x.id
  /\ x.created_by = A /\ A # B
  /\ x.location # last.old
  /\ Notified(A, "booking_cancelled", x.id, B)
  /\ ~\E b \in bookings : b.session_id = x.id /\ b.user_id = B

\* C9 as stated: after B's booking A has a booking_created notification,
\* after B's cancellation A has a booking_cancelled notification, and after
\* A's edit of the location B has a session_modified notification.
C9_ScenarioNotifies ==
  \A A \in Users, B \in Users, x \in sessions :
    /\ Booked(A, B, x) => Notified(A, "booking_created", x.id, B)
    /\ Cancelled(A, B, x) => Notified(A, "booking_cancelled", x.id, B)
    /\ EditedAfterCancel(A, B, x) => Notified(B, "session_modified", x.id, A)

\* C9: after B's booking A has a booking_created notification and after B's
\* cancellation a booking_cancelled one; an edit of the location by A leaves
\* one new session_modified notification for each user other than A who
\* holds a booking of the session when it is edited and none for anyone
\* else, so none for B once B has cancelled.
C9_EditNotifiesBooked ==
  \A A \in Users, B \in Users, x \in sessions :
    /\ Booked(A, B, x) => Notified(A, "booking_created", x.id, B)
    /\ Cancelled(A, B, x) => Notified(A, "booking_cancelled", x.id, B)
    /\ ( /\ last.op = "updateSession" /\ last.error = NULL
         /\ last.user = A /\ last.session = x.id /\ x.created_by = A
         /\ x.location # last.old )
       => CountOf(notifications, "session_modified", B) - last.modified[B]
            = IF A # B /\ \E b \in bookings : b.session_id = x.id /\ b.user_id = B
              THEN 1 ELSE 0

C9_Witness ==
  \E x \in sessions :
    /\ EditedAfterCancel("u2", "u3", x)
    /\ Notified("u2", "booking_created", x.id, "u3")
    /\ ~Notified("u3", "session_modified", x.id, "u2")

----------------------------------------------------------------------------
(* The notifications table as a signed-in client reaches it: the row-level *)
(* policies on INSERT, SELECT, UPDATE and DELETE.                          *)

\* The INSERT policy the table was created with: WITH CHECK (true).
notifications_insert_policy_open(uid, row) == TRUE

\* "Only system can insert notifications": WITH CHECK (false).
notifications_insert_policy(uid, row) == FALSE

\* "Users can view / update / delete own notifications":
\* USING (auth.uid() = user_id).
notifications_own_policy(uid, row) == uid # NULL /\ uid = row.user_id

\* INSERT INTO notifications by client uid.
InsertNotificationAsClient(db, uid, row) ==
  IF ~notifications_insert_policy(uid, row) THEN Err("42501", db)
  ELSE InsertNotifications(db, <<row>>)

\* SELECT * FROM notifications by client uid: the rows the policy shows.
SelectNotifications(db, uid) ==
  LET Own(n) == notifications_own_policy(uid, n)
  IN SelectSeq(db.notifications, Own)

\* UPDATE notifications SET is_read = true for the i-th row, by client uid: a
\* row the policy hides is not updated and raises nothing.  The policy has no
\* WITH CHECK, so its USING expression also checks the new row.
MarkNotificationRead(db, uid, i) ==
  IF notifications_own_policy(uid, db.notifications[i])
  THEN Ok([db EXCEPT !.notifications[i].is_read = TRUE])
  ELSE Ok(db)

\* DELETE FROM notifications for the i-th row, by client uid.
DeleteNotificationRow(db, uid, i) ==
  IF notifications_own_policy(uid, db.notifications[i])
  THEN Ok([db EXCEPT !.notifications =
             SubSeq(@, 1, i - 1) \o SubSeq(@, i + 1, Len(@))])
  ELSE Ok(db)

\* One statement of a client on the notifications table.
NotificationStatement(op, u, i, row) ==
  LET res == CASE op = "insert" -> InsertNotificationAsClient(DB, u, row)
               [] op = "markRead" -> MarkNotificationRead(DB, u, i)
               [] op = "delete" -> DeleteNotificationRow(DB, u, i)
               [] OTHER -> Ok(DB)
  IN /\ u \in auth_users
     /\ op \in {"markRead", "delete"} => i \in 1..Len(notifications)
     /\ WithinBounds(res.db)
     /\ Commit(res.db)
     /\ response' = [error |-> res.error,
                     rows |-> IF op = "select" THEN SelectNotifications(DB, u)
                              ELSE <<>>]
     /\ last' = [op |-> "notifications", statement |-> op, user |-> u,
                 index |-> i, before |-> notifications]
     /\ UNCHANGED <<now, runLog, fetched, running>>

InboxNext ==
  \/ CreateSession("u2", Today(now), 11 * 60, "t1", "l1", "none", {}, SqlNull)
  \/ \E s \in sessions : Book("u3", s.id)
  \/ \E s \in sessions : Cancel("u3", s.id)
  \/ \E s \in sessions : UpdateSession("u2", s.id, "l2")
  \/ \E op \in {"insert", "select", "markRead", "delete"}, u \in {"u2", "u3"},
        i \in 1..MaxNotifications :
       NotificationStatement(op, u, i, Notification("u2", "comment", NULL, u))

SpecInbox == InitDatabase /\ [][InboxNext]_vars

\* C11: a statement of a signed-in client on the notifications table adds no
\* row (an insert is refused with 42501), shows only rows addressed to the
\* client, and changes or removes no row addressed to another user.
C11_ClientsOwnRowsOnly ==
  last.op = "notifications"
    => /\ last.statement = "insert"
            => response.error = "42501" /\ notifications = last.before
       /\ last.statement = "select"
            => /\ notifications = last.before
               /\ \A k \in 1..Len(response.rows) :
                    response.rows[k].user_id = last.user
       /\ last.statement \in {"markRead", "delete"}
            => /\ Len(notifications) <= Len(last.before)
               /\ last.before[last.index].user_id # last.user
                    => notifications = last.before
               /\ \A k \in 1..Len(notifications) :
                    notifications[k].user_id # last.user
                      => \E j \in 1..Len(last.before) :
                           last.before[j] = notifications[k]

C11_Witness ==
  /\ last.op = "notifications"
  /\ last.statement = "markRead"
  /\ last.user = "u3"
  /\ last.before[last.index].user_id = "u2"
  /\ notifications = last.before
  /\ \E k \in 1..Len(notifications) : notifications[k].user_id = "u3"

----------------------------------------------------------------------------
(* Approval of profiles: the approve_user and reject_user functions and    *)
(* the UPDATE policy of the profiles table.                                *)
\* An approve_user that leaves the rejection record in place.
approve_user_keeping_rejection(db, uid, p_user_id, t) ==
  IF ~has_role(db, uid, "admin") THEN Err("Only admins can approve users", db)
  ELSE Ok([db EXCEPT !.profiles =
             {IF p.user_id = p_user_id
              THEN [p EXCEPT !.is_approved = TRUE, !.approved_at = NotNull(t),
                             !.approved_by = uid]
              ELSE p : p \in @}])

\* public.approve_user(p_user_id) called by uid at time t.
approve_user(db, uid, p_user_id, t) ==
  IF ~has_role(db, uid, "admin") THEN Err("Only admins can approve users", db)
  ELSE Ok([db EXCEPT !.profiles =
             {IF p.user_id = p_user_id
              THEN [p EXCEPT !.is_approved = TRUE, !.approved_at = NotNull(t),
                             !.approved_by = uid, !.rejected_at = SqlNull,
                             !.rejected_by = NULL]
              ELSE p : p \in @}])

\* public.reject_user(p_user_id) called by uid at time t.
reject_user(db, uid, p_user_id, t) ==
  IF ~has_role(db, uid, "admin") THEN Err("Only admins can reject users", db)
  ELSE Ok([db EXCEPT !.profiles =
             {IF p.user_id = p_user_id
              THEN [p EXCEPT !.is_approved = FALSE, !.rejected_at = NotNull(t),
                             !.rejected_by = uid, !.approved_at = SqlNull,
                             !.approved_by = NULL]
              ELSE p : p \in @}])

\* An UPDATE policy that lets a user set nothing but the name of the own row.
profiles_update_policy_name_only(uid, row, patch) ==
  uid # NULL /\ uid = row.user_id /\ DOMAIN patch \subseteq {"full_name"}

\* "Users can update own profile": USING (auth.uid() = user_id), whatever the
\* columns the statement sets.
profiles_update_policy(uid, row, patch) == uid # NULL /\ uid = row.user_id

\* UPDATE profiles SET <patch> WHERE user_id = target, by client uid: the
\* rows the policy hides are not updated and raise nothing.
UpdateProfileRow(db, uid, target, patch) ==
  Ok([db EXCEPT !.profiles =
        {IF p.user_id = target /\ profiles_update_policy(uid, p, patch)
         THEN [f \in DOMAIN p |-> IF f \in DOMAIN patch THEN patch[f]
                                  ELSE p[f]]
         ELSE p : p \in @}])

\* AdminUsersPanel.handleApproveUser / handleRejectUser: the RPC, called by
\* whoever is signed in.
ReviewUser(u, decision, target) ==
  LET res == IF decision = "approve" THEN approve_user(DB, u, target, now)
             ELSE reject_user(DB, u, target, now)
  IN /\ u \in auth_users
     /\ Commit(res.db)
     /\ response' = [error |-> res.error]
     /\ last' = [op |-> "reviewUser", decision |-> decision, user |-> u,
                 target |-> target, admin |-> has_role(DB, u, "admin"),
                 before |-> profiles]
     /\ UNCHANGED <<now, runLog, fetched, running>>

\* Account.handleUpdateProfile (patch = the name) and any other update a
\* signed-in client sends for a profile row.
UpdateProfile(u, target, patch) ==
  LET res == UpdateProfileRow(DB, u, target, patch)
  IN /\ u \in auth_users
     /\ Commit(res.db)
     /\ response' = [error |-> res.error]
     /\ last' = [op |-> "updateProfile", user |-> u, target |-> target,
                 admin |-> has_role(DB, u, "admin"), before |-> profiles]
     /\ UNCHANGED <<now, runLog, fetched, running>>

ProfilePatches ==
  {[full_name |-> "m"], [is_approved |-> TRUE], [is_approved |-> FALSE]}

ApprovalNext ==
  \/ \E u \in {"u1", "u2", "u3"}, decision \in {"approve", "reject"},
        target \in {"u2", "u3"} :
       ReviewUser(u, decision, target)
  \/ \E u \in {"u2", "u3"}, target \in {"u2", "u3"}, patch \in ProfilePatches :
       UpdateProfile(u, target, patch)
  \/ Tick

SpecApproval == InitDatabase /\ [][ApprovalNext]_vars

\* The approval columns of a profile row.
ApprovalState(p) ==
  [user_id |-> p.user_id, is_approved |-> p.is_approved,
   approved_by |-> p.approved_by, approved_at |-> p.approved_at,
   rejected_by |-> p.rejected_by, rejected_at |-> p.rejected_at]

\* C12: an operation of a user who holds no admin role leaves the approval
\* columns of every profile as they were, and approve_user and reject_user
\* called by such a user end in an error.
C12_ApprovalByAdminOnly ==
  (last.op \in {"reviewUser", "updateProfile"} /\ ~last.admin)
    => /\ {ApprovalState(p) : p \in profiles}
            = {ApprovalState(p) : p \in last.before}
       /\ last.op = "reviewUser" => response.error # NULL

----------------------------------------------------------------------------
(* Series of sessions: rows that name a parent, the function that deletes  *)
(* the future ones, and what a user who is neither creator nor admin can   *)
(* do to the sessions of others.                                           *)

\* delete_future_recurring_sessions with a test on the caller, as
\* generate_recurring_sessions has one.
delete_future_recurring_sessions_by_creator(db, uid, p_parent_id, today) ==
  IF HasSession(db, p_parent_id)
     /\ SqlNeTrue(SessionById(db, p_parent_id).created_by, uid)
  THEN Err("Only session creator can delete recurring instances", db)
  ELSE LET res == DeleteSessionRows(db,
                    SeqOf({x.id : x \in {y \in db.sessions :
                                           /\ y.parent_session_id = p_parent_id
                                           /\ y.session_date > today}}))
       IN IF res.error # NULL THEN Err(res.error, db) ELSE res

\* delete_future_recurring_sessions that takes the rows dated today as well.
delete_future_recurring_sessions_from_today(db, uid, p_parent_id, today) ==
  LET res == DeleteSessionRows(db,
               SeqOf({x.id : x \in {y \in db.sessions :
                                      /\ y.parent_session_id = p_parent_id
                                      /\ y.session_date >= today}}))
  IN IF res.error # NULL THEN Err(res.error, db) ELSE res

\* public.delete_future_recurring_sessions(p_parent_id) called by uid while
\* CURRENT_DATE is today.  It is SECURITY DEFINER and looks at no caller.
delete_future_recurring_sessions(db, uid, p_parent_id, today) ==
  LET res == DeleteSessionRows(db,
               SeqOf({x.id : x \in {y \in db.sessions :
                                      /\ y.parent_session_id = p_parent_id
                                      /\ y.session_date > today}}))
  IN IF res.error # NULL THEN Err(res.error, db) ELSE res

\* The database has room for one more row of a series.
RoomInSeries == Cardinality(sessions) < MaxSeries /\ nextId <= MaxSeries

\* INSERT INTO sessions of a row that names a parent, sent by the creator of
\* the series.
InsertInstance(u, date, parent) ==
  LET row == SessionRow(RowId(nextId), u, "t1", "l1", date, 11 * 60, "none",
                        SqlNull, SqlNull, parent, TRUE)
      res == InsertSession(DB, u, row)
  IN /\ u \in auth_users
     /\ HasSession(DB, parent)
     /\ RoomInSeries
     /\ Commit(res.db)
     /\ response' = [error |-> res.error]
     /\ last' = [op |-> "insertInstance"]
     /\ UNCHANGED <<now, runLog, fetched, running>>

\* supabase.rpc('delete_future_recurring_sessions', ...) called by uid.
DeleteFutureRecurringSessions(uid, p_parent_id) ==
  LET res == delete_future_recurring_sessions(DB, uid, p_parent_id, Today(now))
  IN /\ Commit(res.db)
     /\ response' = [error |-> res.error]
     /\ last' = [op |-> "deleteFuture", user |-> uid, parent |-> p_parent_id,
                 admin |-> has_role(DB, uid, "admin"), error |-> res.error,
                 today |-> Today(now), before |-> sessions]
     /\ UNCHANGED <<now, runLog, fetched, running>>

\* An update or a delete of a session row sent straight to the table, or a
\* call of generate_recurring_sessions, by u.
SessionStatement(op, u, sid) ==
  LET res == CASE op = "update" -> UpdateSessionLocation(DB, u, sid, "l2")
               [] op = "delete" -> DeleteSessionStatement(DB, u, sid)
               [] OTHER -> generate_recurring_sessions(DB, u, sid, "daily", {},
                             SessionById(DB, sid).session_date + 2)
  IN /\ u \in auth_users
     /\ HasSession(DB, sid)
     /\ op = "generate" => RoomInSeries
     /\ Commit(res.db)
     /\ response' = [error |-> res.error]
     /\ last' = [op |-> "sessionStatement", statement |-> op, user |-> u,
                 session |-> sid,
                 admin |-> has_role(DB, u, "admin"), error |-> res.error,
                 before |-> sessions]
     /\ UNCHANGED <<now, runLog, fetched, running>>

\* u2 builds a series: a session dated today and rows under it, or under one
\* of them, dated yesterday, today or tomorrow.
SeriesNext ==
  \/ CreateSession("u2", Today(now), 11 * 60, "t1", "l1", "none", {}, SqlNull)
  \/ \E date \in (Today(now) - 1)..(Today(now) + 1), x \in sessions :
       InsertInstance("u2", date, x.id)
  \/ \E uid \in {"u2", "u3"}, n \in 1..MaxSeries :
       DeleteFutureRecurringSessions(uid, RowId(n))
  \/ \E op \in {"update", "delete", "generate"}, u \in {"u2", "u3"},
        x \in sessions :
       SessionStatement(op, u, x.id)

SpecSeries == InitDatabase /\ [][SeriesNext]_vars

\* C13: the sessions that a statement or function call of a user without the
\* admin role found, and that this user did not create, are all still there
\* and unchanged after it.
C13_OthersSessionsUntouched ==
  (last.op \in {"deleteFuture", "sessionStatement"} /\ ~last.admin)
    => \A x \in last.before : x.created_by # last.user => x \in sessions

\* The rows of rows whose parent_session_id is p and whose date is after today.
FutureInstances(rows, p, today) ==
  {x \in rows : x.parent_session_id = p /\ x.session_date > today}

\* The rows of set together with the rows of rows under them, through
\* parent_session_id, down to depth n.
RECURSIVE WithDescendants(_, _, _)
WithDescendants(rows, set, n) ==
  IF n = 0 THEN set
  ELSE WithDescendants(rows,
         set \cup {x \in rows : \E y \in set : x.parent_session_id = y.id},
         n - 1)

\* C14 as stated: delete_future_recurring_sessions(parent) removes exactly the
\* rows under that parent dated after today and leaves every other session
\* row as it was.
C14_DeletesExactlyFutureInstances ==
  (last.op = "deleteFuture" /\ last.error = NULL)
    => sessions = last.before
                    \ FutureInstances(last.before, last.parent, last.today)

\* C14: delete_future_recurring_sessions(parent) removes the rows under that
\* parent dated after today and the rows that descend from them, and leaves
\* every other session row as it was: the parent, its rows dated today or
\* earlier, and the rows of other parents that are no such descendants.
C14_DeletesFutureInstancesAndDescendants ==
  (last.op = "deleteFuture" /\ last.error = NULL)
    => sessions = last.before
                    \ WithDescendants(last.before,
                        FutureInstances(last.before, last.parent, last.today),
                        MaxSeries + 1)

\* A call that removed a row dated after today and kept the parent and a row
\* under it dated today or earlier.
C14_Witness ==
  /\ last.op = "deleteFuture"
  /\ last.error = NULL
  /\ FutureInstances(last.before, last.parent, last.today) # {}
  /\ \E x \in sessions : x.id = last.parent
  /\ \E x \in sessions : /\ x.parent_session_id = last.parent
                         /\ x.session_date <= last.today

----------------------------------------------------------------------------
(* Capacity: the session card decides from the bookings the Dashboard last *)
(* fetched whether the booking button is enabled.                          *)

\* Dashboard.fetchSessions of user u, when its answer arrives: the sessions
\* with their bookings, which every authenticated user may read.  It is
\* started when the page mounts and, without being awaited, by the handlers
\* of the cards (onBookingChange, onSessionCreated).  An answer that brings
\* nothing new changes nothing and is left out.
FetchSessions(u) ==
  /\ u \in auth_users
  /\ fetched' = [fetched EXCEPT ![u] = [sessions |-> sessions,
                                        bookings |-> bookings]]
  /\ fetched'[u] # fetched[u]
  /\ last' = [op |-> "fetch", user |-> u]
  /\ UNCHANGED <<auth_users, user_roles, profiles, invites, sessions,
                 bookings, notifications, nextId, now, response, runLog,
                 running>>

\* The bookings of session sid among the rows bs.
BookingsOf(bs, sid) == {b \in bs : b.session_id = sid}

\* SessionCard: spotsLeft and isFull of the card that user u sees for s.
spotsLeft(view, s) ==
  s.max_participants - Cardinality(BookingsOf(view.bookings, s.id))

isFull(view, s) == spotsLeft(view, s) <= 0

\* SessionCard.handleBook started from the button of the card that u sees:
\* the button is there for a session that is not past, not u's own and not
\* booked by u, and it is disabled when the card is full.
BookFromCard(u, sid) ==
  LET view == fetched[u]
      res == InsertBooking(DB, u, sid, u)
  IN /\ u \in auth_users
     /\ \E s \in view.sessions :
          /\ s.id = sid
          /\ s.session_date >= Today(now)
          /\ s.created_by # u
          /\ ~\E b \in BookingsOf(view.bookings, sid) : b.user_id = u
          /\ ~isFull(view, s)
          /\ last' = [op |-> "bookFromCard", user |-> u, session |-> sid,
                      error |-> res.error, spotsLeft |-> spotsLeft(view, s),
                      before |-> DB]
     /\ WithinBounds(res.db)
     /\ Commit(res.db)
     /\ response' = [toast |-> IF res.error = NULL THEN "success" ELSE "error"]
     /\ UNCHANGED <<now, runLog, fetched, running>>

\* u2 creates a session for one participant; u1 and u3 load the Dashboard,
\* book from the card they see and cancel.
CapacityNext ==
  \/ CreateSession("u2", Today(now), 11 * 60, "t1", "l1", "none", {}, SqlNull)
  \/ \E u \in {"u1", "u3"} : FetchSessions(u)
  \/ \E u \in {"u1", "u3"}, x \in sessions : BookFromCard(u, x.id)
  \/ \E u \in {"u1", "u3"}, x \in sessions : Cancel(u, x.id)

SpecCapacity == InitDatabase /\ [][CapacityNext]_vars

\* C15: the database refuses no booking for capacity.  A booking sent from a
\* card that showed an open slot is inserted whenever the session still
\* exists and the user has no booking of it, however many bookings the
\* session has by then.
C15_CapacityCheckedByClientOnly ==
  (/\ last.op = "bookFromCard"
   /\ HasSession(last.before, last.session)
   /\ ~\E b \in BookingsOf(last.before.bookings, last.session) :
         b.user_id = last.user)
    => /\ last.error = NULL
       /\ \E b \in BookingsOf(bookings, last.session) : b.user_id = last.user

\* Two users saw the one open slot of a session and both booked it: the
\* session has more bookings than max_participants.
C15_Witness ==
  /\ last.op = "bookFromCard"
  /\ last.error = NULL
  /\ last.spotsLeft = 1
  /\ \E s \in sessions :
       /\ s.id = last.session
       /\ Cardinality(BookingsOf(last.before.bookings, s.id))
            = s.max_participants
       /\ Cardinality(BookingsOf(bookings, s.id)) > s.max_participants

----------------------------------------------------------------------------
(* The reminder window at any time of the day.                             *)

\* Time passes until the clock shows t.
Wait(t) ==
  /\ t > now
  /\ now' = t
  /\ last' = [op |-> "wait"]
  /\ UNCHANGED <<auth_users, user_roles, profiles, invites, sessions,
                 bookings, notifications, nextId, response, runLog, fetched, running>>

\* Instants at which the dispatcher is looked at: 10:00 (the initial clock),
\* 23:00 and 23:10 of the first day, and the same on the second day.
ClockValues ==
  {d * 24 * 60 + m : d \in 1..2, m \in {10 * 60, 23 * 60, 23 * 60 + 10}}

\* Start times of the sessions: ten past midnight, 11:00 and 23:57.
WindowStartTimes == {10, 11 * 60, 23 * 60 + 57}

WindowNext ==
  \/ \E date \in {Today(now), Today(now) + 1}, start \in WindowStartTimes :
       CreateSession("u1", date, start, "t1", "l1", "none", {}, SqlNull)
  \/ \E s \in sessions : Book("u2", s.id)
  \/ \E t \in ClockValues : Wait(t)
  \/ \E faults \in [{s.id : s \in SessionsInWindow(DB, now)} -> {"none"}] :
       SessionReminders("POST", FALSE, faults)

SpecWindow == InitDatabase /\ [][WindowNext]_vars

\* The instant at which session s starts, in minutes since 00:00 of day 0.
StartInstant(s) == s.session_date * 24 * 60 + s.start_time

\* C16: every session that a run selects is dated today and starts between
\* 55 and 65 minutes after the instant of the run, also when that instant
\* plus 55 or 65 minutes lies after midnight.
C16_SelectsOnlyWindow ==
  (last.op = "session-reminders" /\ last.method = "POST" /\ ~last.queryFails)
    => \A s \in last.found :
         /\ s.session_date = Today(last.at)
         /\ StartInstant(s) - last.at >= WindowMinMinutes
         /\ StartInstant(s) - last.at <= WindowMaxMinutes

----------------------------------------------------------------------------
(* The schedule: cron.schedule('session-reminders', '*/5 * * * *', ...).   *)

\* The schedule is followed until ten past midnight of the second day.  The
\* sessions here are all dated the first day, and a run selects sessions
\* dated the day of the run only, so no later run can select any of them:
\* what holds of their bookings at the horizon holds ever after.
Horizon == 2 * 24 * 60 + 10

\* The run that the schedule starts at the instant now: a POST in which no
\* call fails.
CronRun ==
  /\ runLog.at # now
  /\ SessionReminders("POST", FALSE,
       [sid \in {s.id : s \in SessionsInWindow(DB, now)} |-> "none"])

\* Five minutes pass after the run of the instant now.
CronTick ==
  /\ runLog.at = now
  /\ now < Horizon
  /\ now' = now + CronPeriodMinutes
  /\ UNCHANGED <<auth_users, user_roles, profiles, invites, sessions,
                 bookings, notifications, nextId, response, last, runLog,
                 fetched, running>>

\* Start times of the sessions: 11:05, reached by the window of the run at
\* 10:00, and 23:57.
ScheduleStartTimes == {11 * 60 + 5, 23 * 60 + 57}

ScheduleNext ==
  \/ \E start \in ScheduleStartTimes :
       CreateSession("u1", Today(StartNow), start, "t1", "l1", "none", {},
                     SqlNull)
  \/ \E s \in sessions : Book("u2", s.id)
  \/ CronRun
  \/ CronTick

\* pg_cron starts a run every five minutes and every run ends.
SpecSchedule ==
  /\ InitDatabase
  /\ [][ScheduleNext]_vars
  /\ WF_vars(CronRun)
  /\ WF_vars(CronTick)

\* User u holds an unreminded booking of a session that starts no sooner
\* than 65 minutes from now.
EarlyBooking(u) ==
  \E b \in bookings, s \in sessions :
    /\ b.user_id = u
    /\ b.session_id = s.id
    /\ b.reminder_sent = FALSE
    /\ now + WindowMaxMinutes <= StartInstant(s)

\* The booking of user u has its reminder: the flag and the notification.
Reminded(u) ==
  \E b \in bookings : /\ b.user_id = u
                      /\ b.reminder_sent = TRUE
                      /\ ReminderCount(b) >= 1

\* C17: with a run every five minutes in which nothing fails, a booking that
\* is there, unreminded, 65 minutes or more before its session starts is
\* eventually reminded.
C17_EarlyBookingReminded == EarlyBooking("u2") ~> Reminded("u2")

----------------------------------------------------------------------------
(* A run that meets several sessions, some of whose calls fail.            *)

\* INSERT INTO sessions of a row without recurrence, as handleSubmit sends
\* it, while the table has room.
InsertSessionRow(u, start) ==
  LET row == SessionRow(RowId(nextId), u, "t1", "l1", Today(now), start,
                        "none", SqlNull, SqlNull, NULL, FALSE)
      res == InsertSession(DB, u, row)
  IN /\ u \in auth_users
     /\ nextId <= MaxRows
     /\ Commit(res.db)
     /\ response' = [error |-> res.error]
     /\ last' = [op |-> "insertSession"]
     /\ UNCHANGED <<now, runLog, fetched, running>>

BatchNext ==
  \/ InsertSessionRow("u1", 11 * 60)
  \/ \E u \in {"u2", "u3"}, s \in sessions : Book(u, s.id)
  \/ \E queryFails \in BOOLEAN :
       \E faults \in [{s.id : s \in SessionsInWindow(DB, now)} -> SessionFaults] :
         SessionReminders("POST", queryFails, faults)

SpecBatch == InitDatabase /\ [][BatchNext]_vars

\* The last request was a run that got its sessions.
RunReachedLoop ==
  last.op = "session-reminders" /\ last.method = "POST" /\ ~last.queryFails

\* The run's fetch of bookings or insert of notifications failed for s.
FailedFor(s) == last.faults[s.id] \in {"bookings", "insert"}

\* C18: a run in which the fetch of bookings or the insert of notifications
\* fails for a session still enters the iteration of every session it found,
\* and leaves the bookings of the failed session unreminded; a booking has
\* reminder_sent = true only if it has its notification.
C18_FailureSkipsOnlyThatSession ==
  /\ RunReachedLoop =>
       /\ last.visited = {s.id : s \in last.found}
       /\ \A s \in last.found : FailedFor(s) =>
            \A b \in last.pending : b.session_id = s.id => b \in bookings
  /\ \A b \in bookings : b.reminder_sent => ReminderCount(b) >= 1

\* A run met two sessions with unreminded bookings; a call failed for one of
\* them and none for the other.
C18_Witness ==
  /\ RunReachedLoop
  /\ \E s, t \in last.found :
       /\ FailedFor(s)
       /\ last.faults[t.id] = "none"
       /\ \E b \in last.pending : b.session_id = s.id
       /\ \E b \in last.pending : b.session_id = t.id
       /\ {s.id, t.id} \subseteq last.visited

----------------------------------------------------------------------------
(* The cap on the instances of one generate_recurring_sessions call.       *)

\* The n earliest days of the set of days M.
Earliest(M, n) == {d \in M : Cardinality({m \in M : m <= d}) <= n}

\* C19: a generate_recurring_sessions call inserts at most 365 rows; a call
\* of the creator with a valid type and end date whose rule matches more
\* than 365 days returns without error, leaves 365 instances on the earliest
\* matching days, and leaves the parent row as it was.
C19_CapKeepsEarliest ==
  /\ last.op = "generate" =>
       Cardinality(sessions \ last.before) <= v_max_instances
  /\ \A p \in sessions \cup (IF last.op = "generate" THEN last.before ELSE {}) :
       ( /\ GenerateCalledOn(p)
         /\ last.uid = p.created_by
         /\ last.type \in {"daily", "weekly", "custom"}
         /\ p.session_date < last.end
         /\ last.end <= p.session_date + v_max_period
         /\ Cardinality(MatchingDays(p.session_date, last.type, last.days,
                                     last.end)) > v_max_instances )
       => /\ last.error = NULL
          /\ p \in sessions
          /\ Cardinality(sessions \ last.before) = v_max_instances
          /\ {x.session_date : x \in sessions \ last.before}
               = Earliest(MatchingDays(p.session_date, last.type, last.days,
                                       last.end), v_max_instances)

----------------------------------------------------------------------------
(* What a booking and its cancellation add to the notifications.           *)

\* User U holds a booking of session sid among the rows bs.
HasBooking(bs, sid, U) == \E b \in bs : b.session_id = sid /\ b.user_id = U

\* The notifications after an event on U's booking of session x, of creator
\* C: one row of the given type for C when U is not C, nothing otherwise.
AfterBookingEvent(type, x, U) ==
  IF U # x.created_by
  THEN Append(notifications, Notification(x.created_by, type, x.id, U))
  ELSE notifications

\* One step: when a booking of a session with a creator appears or goes while
\* the session and the accounts stay, the notifications change as said.
BookingStepNotifiesCreator ==
  \A U \in Users, x \in sessions :
    (sessions' = sessions /\ auth_users' = auth_users /\ x.created_by # NULL)
      => /\ (~HasBooking(bookings, x.id, U) /\ HasBooking(bookings', x.id, U))
              => notifications' = AfterBookingEvent("booking_created", x, U)
         /\ (HasBooking(bookings, x.id, U) /\ ~HasBooking(bookings', x.id, U))
              => notifications' = AfterBookingEvent("booking_cancelled", x, U)

\* C20: the insert of a booking of user U on a session created by C adds one
\* booking_created notification for C when U is not C and nothing when U is
\* C; the delete of that booking while the session exists adds one
\* booking_cancelled notification for C when U is not C and nothing when U
\* is C; nothing is added for anyone else.
C20_BookingNotifiesCreatorOnly == [][BookingStepNotifiesCreator]_vars

\* A user other than the creator has booked and then cancelled: the two
\* notifications of the creator are there, and the cancellation was the
\* last request.
C20_Witness ==
  /\ last.op = "cancel"
  /\ last.had
  /\ last.error = NULL
  /\ \E x \in sessions :
       /\ x.id = last.session
       /\ x.created_by # NULL
       /\ x.created_by # last.user
       /\ CountOf(notifications, "booking_created", x.created_by) = 1
       /\ CountOf(notifications, "booking_cancelled", x.created_by) = 1
       /\ Len(notifications) = 2

----------------------------------------------------------------------------
(* Updates of a session row, field by field.                               *)

\* The row old with the columns of patch set to the values of patch.
Patched(old, patch) ==
  [f \in DOMAIN old |-> IF f \in DOMAIN patch THEN patch[f] ELSE old[f]]

\* UPDATE sessions SET <patch> WHERE id = sid, by client uid, under "Admins
\* or creators can update sessions", with the on_session_modified trigger: a
\* row the policy hides is not updated and raises nothing.
UpdateSessionFields(db, uid, sid, patch) ==
  IF ~HasSession(db, sid) THEN Ok(db)
  ELSE LET old == SessionById(db, sid)
           new == Patched(old, patch)
           upd == [db EXCEPT !.sessions = (@ \ {old}) \cup {new}]
           trg == notify_session_modified(upd, old, new)
       IN IF uid = NULL \/ ~(has_role(db, uid, "admin") \/ uid = old.created_by)
          THEN Ok(db)
          ELSE IF trg.error # NULL THEN Err(trg.error, db)
          ELSE trg

\* The columns whose change notify_session_modified looks for.
TrackedFields == {"title", "session_date", "start_time", "end_time", "location"}

\* An update of some columns of a session, sent by u.
EditSession(u, sid, patch) ==
  LET res == UpdateSessionFields(DB, u, sid, patch)
      old == SessionById(DB, sid)
  IN /\ u \in auth_users
     /\ HasSession(DB, sid)
     /\ WithinBounds(res.db)
     /\ Commit(res.db)
     /\ response' = [error |-> res.error]
     /\ last' = [op |-> "editSession", user |-> u, session |-> sid,
                 error |-> res.error, old |-> old,
                 allowed |-> has_role(DB, u, "admin") \/ u = old.created_by,
                 booked |-> {b.user_id : b \in BookingsOf(bookings, sid)},
                 before |-> Len(notifications)]
     /\ UNCHANGED <<now, runLog, fetched, running>>

\* What the updates set: a new or the same location, a new title, a new
\* start time, another number of participants, the cancellation flag.
SessionPatches ==
  {[location |-> "l2"], [location |-> "l1"], [title |-> "t2"],
   [start_time |-> 12 * 60], [max_participants |-> 2],
   [is_cancelled |-> TRUE]}

\* u2 creates a session; the admin u1 and u3 book it and cancel; the admin,
\* the creator and u3 send updates.
EditNext ==
  \/ CreateSession("u2", Today(now), 11 * 60, "t1", "l1", "none", {}, SqlNull)
  \/ \E u \in {"u1", "u3"}, x \in sessions : Book(u, x.id)
  \/ \E u \in {"u1", "u3"}, x \in sessions : Cancel(u, x.id)
  \/ \E u \in Users, x \in sessions, patch \in SessionPatches :
       EditSession(u, x.id, patch)

SpecEdit == InitDatabase /\ [][EditNext]_vars

\* The notifications of a type for user v that the last request added.
AddedFor(type, v) ==
  Cardinality({i \in (last.before + 1)..Len(notifications) :
                 /\ notifications[i].type = type
                 /\ notifications[i].user_id = v})

\* The last request was an update that the policy let through and that
\* ended without error.
SessionEdited == last.op = "editSession" /\ last.allowed /\ last.error = NULL

\* The last update changed one of the tracked columns.
TrackedChanged ==
  \E x \in sessions : /\ x.id = last.session
                      /\ \E f \in TrackedFields : x[f] # last.old[f]

\* C21: an update that changes no tracked column adds no notification; one
\* that changes a tracked column adds one session_modified notification for
\* each booked user other than the user who sent the update, and nothing
\* else.
C21_EditNotifiesAllButEditor ==
  SessionEdited =>
    /\ ~TrackedChanged => Len(notifications) = last.before
    /\ TrackedChanged =>
         /\ \A v \in Users :
              AddedFor("session_modified", v)
                = IF v \in last.booked /\ v # last.user THEN 1 ELSE 0
         /\ Len(notifications) - last.before
              = Cardinality(last.booked \ {last.user})

\* The last update set is_cancelled from false to true and nothing else.
FlagCancelled ==
  /\ SessionEdited
  /\ last.old.is_cancelled = FALSE
  /\ [last.old EXCEPT !.is_cancelled = TRUE] \in sessions

\* C22: an update that sets is_cancelled from false to true and leaves the
\* other columns adds one session_cancelled notification for each booked
\* user other than the organizer.
C22_CancelFlagNotifiesBooked ==
  FlagCancelled =>
    \A v \in Users :
      AddedFor("session_cancelled", v)
        = IF v \in last.booked /\ SqlNeTrue(v, last.old.created_by)
          THEN 1 ELSE 0

----------------------------------------------------------------------------
(* Sign-up: the insert into auth.users and its triggers.                   *)

\* notify_admins_new_user, AFTER INSERT ON profiles WHEN NEW.is_approved =
\* false: one new_user_pending row for each holder of the admin role.
notify_admins_new_user(db, new) ==
  IF new.is_approved THEN Ok(db)
  ELSE InsertNotifications(db,
         SeqOf({Notification(r.user_id, "new_user_pending", NULL, new.user_id)
                  : r \in {q \in db.user_roles : q.role = "admin"}}))

\* The first definition of handle_new_user: the trigger also marks the
\* invite of the address as used.
InsertAuthUser_marking_invite(db, id, email) ==
  LET new == ProfileRow(id, email, FALSE)
      ins == [db EXCEPT !.auth_users = @ \cup {id},
                        !.profiles = @ \cup {new}]
      trg == notify_admins_new_user(ins, new)
  IN IF id \in db.auth_users
        \/ \E p \in db.profiles : toLowerCase(p.email) = toLowerCase(email)
     THEN Err("user_already_exists", db)
     ELSE IF trg.error # NULL THEN Err(trg.error, db)
     ELSE Ok([trg.db EXCEPT
                !.user_roles = @ \cup {[user_id |-> id, role |-> "member"]},
                !.invites = {IF i.email = email THEN [i EXCEPT !.used = TRUE]
                             ELSE i : i \in @}])

\* INSERT INTO auth.users of the account id with address email, and
\* handle_new_user AFTER INSERT: the profile, not approved, with its own
\* trigger, and the member role.  The address of an account is unique, and
\* an exception in a trigger undoes the insert.
InsertAuthUser(db, id, email) ==
  LET new == ProfileRow(id, email, FALSE)
      ins == [db EXCEPT !.auth_users = @ \cup {id},
                        !.profiles = @ \cup {new}]
      trg == notify_admins_new_user(ins, new)
  IN IF id \in db.auth_users
        \/ \E p \in db.profiles : toLowerCase(p.email) = toLowerCase(email)
     THEN Err("user_already_exists", db)
     ELSE IF trg.error # NULL THEN Err(trg.error, db)
     ELSE Ok([trg.db EXCEPT
                !.user_roles = @ \cup {[user_id |-> id, role |-> "member"]}])

----------------------------------------------------------------------------
(* Statements whose trigger writes to several users, while the insert for  *)
(* some of them fails.                                                     *)

\* The account that signs up in the model and its address.
NewUser == "u4"
NewEmail == "d@x"

\* The users a statement's trigger writes to.
Recipients(kind, db, sid) ==
  CASE kind = "signup" -> {r.user_id : r \in {q \in db.user_roles :
                                                q.role = "admin"}}
    [] OTHER -> IF ~HasSession(db, sid) THEN {}
                ELSE {b.user_id : b \in {c \in BookingsOf(db.bookings, sid) :
                        SqlNeTrue(c.user_id, SessionById(db, sid).created_by)}}

\* The type of the rows that trigger writes.
FanOutType(kind) ==
  CASE kind = "update" -> "session_modified"
    [] kind = "delete" -> "session_cancelled"
    [] OTHER -> "new_user_pending"

\* One statement sent by u: an update of the location of session sid, a
\* delete of session sid, or a sign-up, while the insert into notifications
\* fails for the users in failing.
FanOutStatement(kind, u, sid, failing) ==
  LET db == [DB EXCEPT !.failing = failing]
      res == CASE kind = "update" -> UpdateSessionFields(db, u, sid,
                                                         [location |-> "l2"])
               [] kind = "delete" -> DeleteSessionStatement(db, u, sid)
               [] OTHER -> InsertAuthUser(db, NewUser, NewEmail)
  IN /\ kind # "signup" => u \in auth_users /\ HasSession(DB, sid)
     /\ kind = "signup" => sid = NULL /\ u = NULL
     /\ WithinBounds(res.db)
     /\ Commit(res.db)
     /\ response' = [error |-> res.error]
     /\ last' = [op |-> "fanOut", kind |-> kind, user |-> u, session |-> sid,
                 failing |-> failing, error |-> res.error,
                 recipients |-> Recipients(kind, DB, sid),
                 allowed |-> \/ kind = "signup"
                             \/ has_role(DB, u, "admin")
                             \/ /\ HasSession(DB, sid)
                                /\ u = SessionById(DB, sid).created_by,
                 counts |-> [v \in Users |->
                               CountOf(notifications, FanOutType(kind), v)]]
     /\ UNCHANGED <<now, runLog, fetched, running>>

\* u2 creates a session on which the admin u1 and u3 book; u2 edits and
\* deletes it; an account signs up and the admin deletes it again.
FanOutNext ==
  \/ CreateSession("u2", Today(now), 11 * 60, "t1", "l1", "none", {}, SqlNull)
  \/ \E u \in {"u1", "u3"}, x \in sessions : Book(u, x.id)
  \/ \E kind \in {"update", "delete"}, x \in sessions,
        failing \in SUBSET {"u1", "u3"} :
       FanOutStatement(kind, "u2", x.id, failing)
  \/ \E failing \in SUBSET {"u1"} : FanOutStatement("signup", NULL, NULL, failing)
  \/ AdminUsers("action",
                Request("POST", BearerOf("u1"),
                        Body("delete", NewUser, NULL, SqlNull)), TRUE)

SpecFanOut == InitDatabase /\ [][FanOutNext]_vars

\* The mutation of the last statement is in the database.
MutationInEffect ==
  CASE last.kind = "update" ->
         \E x \in sessions : x.id = last.session /\ x.location = "l2"
    [] last.kind = "delete" -> ~HasSession(DB, last.session)
    [] OTHER -> /\ NewUser \in auth_users
                /\ \E p \in profiles : p.user_id = NewUser

\* C23: when the insert for one recipient fails during a session update, a
\* session delete or a sign-up, every other recipient still gets its
\* notification and the statement's mutation is in effect.
C23_FanOutBestEffort ==
  (/\ last.op = "fanOut"
   /\ last.allowed
   /\ last.recipients \cap last.failing # {})
    => /\ MutationInEffect
       /\ \A v \in last.recipients \ last.failing :
            CountOf(notifications, FanOutType(last.kind), v)
              = last.counts[v] + 1

----------------------------------------------------------------------------
(* updateRoles: the role set after the request.                            *)

\* The roles user u holds in the rows rs of user_roles.
RolesOf(rs, u) == {r.role : r \in {q \in rs : q.user_id = u}}

\* A list of distinct role names of the enum app_role.
ValidRoleList(roles) ==
  /\ \A i \in 1..Len(roles) : roles[i] \in AppRoles
  /\ Cardinality(Range(roles)) = Len(roles)

\* The last request was an updateRoles, with or without a role list, that an
\* admin sent about an existing account.
UpdateRolesServed ==
  /\ last.op = "admin-users"
  /\ last.req.method # "OPTIONS"
  /\ last.version = "action" /\ last.req.body.action = "updateRoles"
  /\ ValidCredential /\ last.admin
  /\ last.req.body.userId \in last.before.auth_users

\* C24: an updateRoles request leaves the target with exactly the requested
\* roles, or, when roles is not a list, names a role outside the enum or
\* names a role twice (or is the caller's own demotion), leaves the target's
\* role rows as they were.
C24_RolesReplacedOrUntouched ==
  UpdateRolesServed =>
    LET target == last.req.body.userId
        asked == last.req.body.roles
        before == RolesOf(last.before.user_roles, target)
        after == RolesOf(user_roles, target)
    IN IF \/ asked = SqlNull
          \/ \E roles \in asked : ~ValidRoleList(roles)
          \/ SelfDemote
       THEN after = before
       ELSE \A roles \in asked : after = Range(roles)

----------------------------------------------------------------------------
(* Invites and sign-up.                                                    *)

\* public.validate_invite_code(p_invite_code, p_email).
validate_invite_code(db, p_invite_code, p_email) ==
  \E i \in db.invites : /\ i.invite_code = p_invite_code
                        /\ toLowerCase(i.email) = toLowerCase(p_email)
                        /\ i.used = FALSE

\* Auth.handleSignup with an address and an invite code, as the database
\* sees it: the insert into auth.users with its triggers.
SignUp(email, code) ==
  LET res == InsertAuthUser(DB, NewUser, email)
  IN /\ WithinBounds(res.db)
     /\ Commit(res.db)
     /\ response' = [error |-> res.error]
     /\ last' = [op |-> "signUp", email |-> email, code |-> code,
                 invited |-> validate_invite_code(DB, code, email),
                 error |-> res.error]
     /\ UNCHANGED <<now, runLog, fetched, running>>

\* supabase.rpc('validate_invite_code', ...) by anyone.
ValidateInviteCode(code, email) ==
  /\ response' = [valid |-> validate_invite_code(DB, code, email)]
  /\ last' = [op |-> "validate", email |-> email, code |-> code]
  /\ UNCHANGED <<auth_users, user_roles, profiles, invites, sessions,
                 bookings, notifications, nextId, now, runLog, fetched, running>>

\* The admin invites two addresses; an account signs up with a code, is
\* deleted by the admin and signs up again; codes are validated.
SignupNext ==
  \/ \E u \in {"u1", "u2"}, email \in {"D@x", "e@x"} : InviteUser(u, email)
  \/ \E email \in {NewEmail, "e@x"}, n \in 1..MaxRows :
       SignUp(email, InviteCode(n))
  \/ \E email \in {NewEmail, "e@x"}, n \in 1..MaxRows :
       ValidateInviteCode(InviteCode(n), email)
  \/ AdminUsers("action",
                Request("POST", BearerOf("u1"),
                        Body("delete", NewUser, NULL, SqlNull)), TRUE)

SpecSignup == InitDatabase /\ [][SignupNext]_vars

\* C25: after a sign-up with an invited address and its code, the invite of
\* that address has used = true and validate_invite_code answers false for
\* that code and address.
C25_InviteSingleUse ==
  (last.op = "signUp" /\ last.error = NULL /\ last.invited)
    => /\ \A i \in invites :
            toLowerCase(i.email) = toLowerCase(last.email) => i.used
       /\ ~validate_invite_code(DB, last.code, last.email)

----------------------------------------------------------------------------
(* Instances and their parents.                                            *)

\* The last request deleted the session it names.
SessionDeleted ==
  /\ last.op = "sessionStatement"
  /\ last.statement = "delete"
  /\ \E x \in last.before : x.id = last.session
  /\ ~HasSession(DB, last.session)

----------------------------------------------------------------------------
(* Invocations of session-reminders that overlap.  Each await of the       *)
(* handler that reaches the database is a step of its own, and the steps   *)
(* of two invocations interleave freely: the handler takes no lock and     *)
(* opens no transaction.                                                   *)

\* The invocation goes on with the sessions it has left, or answers.
NextSession(run, left) ==
  IF left = {} THEN Idle ELSE [pc |-> "loop", left |-> left]

\* The bookings an invocation other than i has read and not yet marked.
HeldByOthers(i) ==
  UNION {{b.id : b \in running[j].bookings} :
           j \in {k \in Invocations \ {i} :
                    running[k].pc \in {"read", "inserted"}}}

\* What an invocation does up to its next await, by where it stands:
\*   idle      the query for the sessions in the window (an invocation that
\*             finds none answers at once);
\*   loop      the query for the bookings of the next session with
\*             reminder_sent = false; with none the loop continues;
\*   read      the insert of one notification per booking read; when it is
\*             refused the loop continues;
\*   inserted  update({ reminder_sent: true }).in('id', bookingIds).
ReminderAwait(db, run, t) ==
  CASE run.pc = "idle" ->
         [db |-> db, error |-> NULL,
          run |-> NextSession(run, {s.id : s \in SessionsInWindow(db, t)})]
    [] run.pc = "loop" ->
         LET sid == CHOOSE x \in run.left : TRUE
             pending == PendingBookings(db, sid)
         IN [db |-> db, error |-> NULL,
             run |-> IF pending = {} THEN NextSession(run, run.left \ {sid})
                     ELSE [pc |-> "read", left |-> run.left \ {sid},
                           session |-> sid, bookings |-> pending]]
    [] run.pc = "read" ->
         LET rows == SeqOf({Notification(b.user_id, "session_reminder",
                                         run.session, NULL)
                              : b \in run.bookings})
             ins == InsertNotifications(db, rows)
         IN [db |-> ins.db, error |-> ins.error,
             run |-> IF ins.error # NULL THEN NextSession(run, run.left)
                     ELSE [run EXCEPT !.pc = "inserted"]]
    [] run.pc = "inserted" ->
         LET ids == {b.id : b \in run.bookings}
         IN [db |-> [db EXCEPT !.bookings =
                       {IF b.id \in ids THEN [b EXCEPT !.reminder_sent = TRUE]
                        ELSE b : b \in @}],
             error |-> NULL,
             run |-> NextSession(run, run.left)]

\* Invocation i runs to its next await.
ReminderStep(i) ==
  LET run == running[i]
      step == ReminderAwait(DB, run, now)
  IN /\ step.run # run
     /\ WithinBounds(step.db)
     /\ Commit(step.db)
     /\ running' = [running EXCEPT ![i] = step.run]
     /\ last' = IF run.pc = "read"
                THEN [op |-> "reminderInsert", run |-> i,
                      session |-> run.session,
                      bookings |-> {x.id : x \in run.bookings},
                      held |-> HeldByOthers(i), error |-> step.error]
                ELSE last
     /\ UNCHANGED <<now, response, runLog, fetched>>

OverlapNext ==
  \/ InsertSessionRow("u1", 11 * 60)
  \/ \E u \in {"u1", "u2"}, s \in sessions : Book(u, s.id)
  \/ \E i \in Invocations : ReminderStep(i)

SpecOverlap == InitDatabase /\ [][OverlapNext]_vars

----------------------------------------------------------------------------
(* updateRoles requests that overlap.  The handler reads user_roles for    *)
(* its admin check, then deletes the target's rows, then inserts the new   *)
(* ones: three statements, each on its own, with nothing that holds them   *)
(* together.                                                               *)

\* The invocation has passed its checks and not yet answered.
InFlight(run) == run.pc \in {"checked", "deleted"}

Answered(run, status, wrote) ==
  [pc |-> "answered", userId |-> run.userId, target |-> run.target,
   roles |-> run.roles, status |-> status, wrote |-> wrote,
   contended |-> run.contended]

\* A handler that makes the admin check again before each statement.
UpdateRolesAwait_checking_again(db, run, req) ==
  CASE InFlight(run) /\ ~has_role(db, run.userId, "admin") ->
         [db |-> db, run |-> Answered(run, 403, TRUE)]
    [] run.pc = "checked" ->
         LET deleted == [db EXCEPT !.user_roles =
                           {r \in @ : r.user_id # run.target}]
         IN [db |-> deleted,
             run |-> IF run.roles = <<>> THEN Answered(run, 200, TRUE)
                     ELSE [run EXCEPT !.pc = "deleted"]]
    [] run.pc = "deleted" ->
         LET ins == InsertRoles(db, run.target, run.roles)
         IN [db |-> ins.db,
             run |-> Answered(run, IF ins.error # NULL THEN 500 ELSE 200,
                              TRUE)]
    [] OTHER ->
         LET auth == Authorize(db, req.authHeader)
             userId == getClaims(req.authHeader)
             roles == CHOOSE r \in req.body.roles : TRUE
             new == [pc |-> "checked", userId |-> userId,
                     target |-> req.body.userId, roles |-> roles,
                     contended |-> FALSE]
         IN [db |-> db,
             run |-> IF auth.status # 0 THEN Answered(new, auth.status, FALSE)
                     ELSE IF new.target = userId /\ "admin" \notin Range(roles)
                     THEN Answered(new, 400, FALSE)
                     ELSE new]


\* What an updateRoles invocation does up to its next statement, by where
\* it stands:
\*   checked  the delete of the target's rows; with an empty list the
\*            answer follows;
\*   deleted  the insert of the new rows and the answer;
\*   else     a new request: the claims, the admin check, the body and the
\*            guard on the caller's own admin role.
UpdateRolesAwait(db, run, req) ==
  CASE run.pc = "checked" ->
         LET deleted == [db EXCEPT !.user_roles =
                           {r \in @ : r.user_id # run.target}]
         IN [db |-> deleted,
             run |-> IF run.roles = <<>> THEN Answered(run, 200, TRUE)
                     ELSE [run EXCEPT !.pc = "deleted"]]
    [] run.pc = "deleted" ->
         LET ins == InsertRoles(db, run.target, run.roles)
         IN [db |-> ins.db,
             run |-> Answered(run, IF ins.error # NULL THEN 500 ELSE 200,
                              TRUE)]
    [] OTHER ->
         LET auth == Authorize(db, req.authHeader)
             userId == getClaims(req.authHeader)
             roles == CHOOSE r \in req.body.roles : TRUE
             new == [pc |-> "checked", userId |-> userId,
                     target |-> req.body.userId, roles |-> roles,
                     contended |-> FALSE]
         IN [db |-> db,
             run |-> IF auth.status # 0 THEN Answered(new, auth.status, FALSE)
                     ELSE IF new.target = userId /\ "admin" \notin Range(roles)
                     THEN Answered(new, 400, FALSE)
                     ELSE new]

RaceRoleLists == {<<"member">>, <<"admin", "member">>}

RaceRequests ==
  {Request("POST", BearerOf(u), Body("updateRoles", t, NULL, NotNull(r)))
     : u \in {"u1", "u2"}, t \in {"u1", "u2"}, r \in RaceRoleLists}

\* Invocation i runs to its next statement; req is the request it serves
\* when it begins.  contended: another invocation was writing the same
\* user's roles while this one was.
UpdateRolesStep(i, req) ==
  LET run == running[i]
      step == UpdateRolesAwait(DB, run, req)
      begins == ~InFlight(run) /\ InFlight(step.run)
      Same(k) == /\ k # i
                 /\ InFlight(running[k])
                 /\ running[k].target = step.run.target
  IN /\ Commit(step.db)
     /\ running' = [k \in Invocations |->
          IF k = i
          THEN IF begins /\ \E j \in Invocations : Same(j)
               THEN [step.run EXCEPT !.contended = TRUE]
               ELSE step.run
          ELSE IF begins /\ Same(k)
          THEN [running[k] EXCEPT !.contended = TRUE]
          ELSE running[k]]
     /\ response' = IF InFlight(step.run) THEN response
                    ELSE [status |-> step.run.status]
     /\ UNCHANGED <<now, last, runLog, fetched>>

RaceNext == \E i \in Invocations, req \in RaceRequests : UpdateRolesStep(i, req)

SpecRace == InitDatabase /\ [][RaceNext]_vars

\* C28: an updateRoles request that has passed the admin check and the
\* guard, and that no other request on the same user overlaps, answers 200
\* whatever has become of its caller's own roles in between: the guard and
\* the check do not stop two admins from removing each other's admin role.
C28_CheckedRequestSucceeds ==
  \A i \in Invocations :
    (running[i].pc = "answered" /\ running[i].wrote /\ ~running[i].contended)
      => running[i].status = 200

\* Two admins have each removed the other's admin role, both requests were
\* answered 200, and no user holds the admin role.
C28_Witness ==
  /\ \E i, j \in Invocations :
       /\ running[i].pc = "answered" /\ running[j].pc = "answered"
       /\ running[i].status = 200 /\ running[j].status = 200
       /\ running[i].wrote /\ running[j].wrote
       /\ running[i].userId # running[j].userId
       /\ running[i].target = running[j].userId
       /\ running[j].target = running[i].userId
       /\ "admin" \notin Range(running[i].roles)
       /\ "admin" \notin Range(running[j].roles)
  /\ \A r \in user_roles : r.role # "admin"

----------------------------------------------------------------------------
(* The approval and rejection records of a profile.                        *)

\* The step is a call of approve_user or reject_user that succeeded.
ReviewServed ==
  /\ last'.op = "reviewUser"
  /\ response'.error = NULL
  /\ last'.before = profiles
  /\ now' = now

HasApproval(p) == p.approved_at # SqlNull \/ p.approved_by # NULL
HasRejection(p) == p.rejected_at # SqlNull \/ p.rejected_by # NULL

ReviewLeavesOneRecord ==
  ReviewServed =>
    /\ \A p \in profiles' : p.user_id = last'.target =>
         /\ p.is_approved = (last'.decision = "approve")
         /\ HasApproval(p) = (last'.decision = "approve")
         /\ HasRejection(p) = (last'.decision = "reject")
         /\ last'.decision = "approve" =>
              p.approved_at = NotNull(now) /\ p.approved_by = last'.user
         /\ last'.decision = "reject" =>
              p.rejected_at = NotNull(now) /\ p.rejected_by = last'.user
    /\ {p \in profiles' : p.user_id # last'.target}
         = {p \in profiles : p.user_id # last'.target}

\* C29: a successful approve_user or reject_user leaves the profile with
\* the record of that call only (approved_at/approved_by or
\* rejected_at/rejected_by, never both), with is_approved true exactly when
\* the call was approve_user, and leaves every other profile as it was.
C29_ReviewLeavesOneRecord == [][ReviewLeavesOneRecord]_vars

\* A profile that held a rejection record has been approved, while another
\* profile keeps its rejection record.
C29_Witness ==
  /\ last.op = "reviewUser"
  /\ response.error = NULL
  /\ last.decision = "approve"
  /\ \E p \in last.before : p.user_id = last.target /\ HasRejection(p)
  /\ \E p \in profiles : p.user_id = last.target /\ p.is_approved
  /\ \E p \in profiles : p.user_id # last.target /\ HasRejection(p)

----------------------------------------------------------------------------
(* Reminders and the cancellation flag.                                    *)

CancelledNext ==
  \/ InsertSessionRow("u1", 11 * 60)
  \/ \E u \in {"u2", "u3"}, s \in sessions : Book(u, s.id)
  \/ \E s \in sessions : EditSession("u1", s.id, [is_cancelled |-> TRUE])
  \/ SessionReminders("POST", FALSE,
                      [sid \in {s.id : s \in SessionsInWindow(DB, now)} |-> "none"])

SpecCancelled == InitDatabase /\ [][CancelledNext]_vars

\* The database with every session live.
AllLive(db) ==
  [db EXCEPT !.sessions = {[s EXCEPT !.is_cancelled = FALSE] : s \in @}]

\* The step is a run of session-reminders on the database of its first
\* state.
RunServed ==
  /\ last'.op = "session-reminders"
  /\ last'.method = "POST"
  /\ ~last'.queryFails
  /\ last'.at = now
  /\ last'.found = SessionsInWindow(DB, now)
  /\ last'.pending = UNION {PendingBookings(DB, s.id) : s \in last'.found}
  /\ last'.before = Len(notifications)
  /\ sessions' = sessions

RunIgnoresCancellation ==
  RunServed =>
    LET live == AllLive(DB)
        ids == {s.id : s \in SessionsInWindow(live, now)}
        run == RemindSessions(live, ids, [sid \in ids |-> "none"])
    IN /\ last'.visited = run.visited
       /\ {s.id : s \in last'.found} = ids
       /\ bookings' = run.db.bookings
       /\ notifications' = run.db.notifications
       /\ response'.reminders_sent = run.sent

\* C30: a run of session-reminders does to the bookings of the sessions in
\* the window what it would do if none of the sessions had is_cancelled =
\* true: the same sessions are visited, the same notifications written and
\* the same bookings marked.
C30_RunIgnoresCancellation == [][RunIgnoresCancellation]_vars

\* A run has visited a cancelled session and a live one, each with an
\* unreminded booking, and left both bookings in the same state.
C30_Witness ==
  /\ last.op = "session-reminders"
  /\ \E s, t \in last.found :
       /\ s.is_cancelled /\ ~t.is_cancelled
       /\ {s.id, t.id} \subseteq last.visited
       /\ \E b, c \in last.pending :
            /\ b.session_id = s.id /\ c.session_id = t.id
            /\ \E x, y \in bookings :
                 /\ x.id = b.id /\ y.id = c.id
                 /\ x.reminder_sent = y.reminder_sent
                 /\ ReminderCount(x) = ReminderCount(y)

====
